---- MODULE Spec2Model ----
(***************************************************************************)
(* Persistent volume subsystem of moru-ai/sandbox-infra.                   *)
(*                                                                         *)
(* The module holds several state machines that write no common state:     *)
(*   SpecVolumes   the volume lifecycle handlers of the API over the       *)
(*                 volumes table (handlers/volumes.go and the file API)    *)
(*   SpecProxy     the GCS proxy's path check (gcsproxy/proxy.go)          *)
(*   SpecFS        the out-of-band JuiceFS client and its sync-back        *)
(*   SpecConsumer  the sandbox-run event consumer over the Redis stream    *)
(*   LiveConsumer  SpecConsumer with the fairness of the consumer loop     *)
(*   SpecMount     the in-VM mount agent: Mount, and Unmount on /shutdown  *)
(*   SpecClientMu  the read-write lock of one JuiceFS client under         *)
(*                 concurrent file API requests                            *)
(*   SpecPool      the API's pool of JuiceFS clients and its idle sweep    *)
(*   SpecBucket    the object-store layout of a volume, create to delete   *)
(*                 (it reads which PostVolumes the API runs, no more)      *)
(*   SpecListing   a directory listed page by page with nextToken          *)
(*   SpecPaths     ValidateMountPath                                       *)
(*   SpecCrypto    the Encryptor of volume passwords                       *)
(*   SpecNames     the name check of PostVolumes                           *)
(*   SpecRuns      a team's sandbox runs listed page by page               *)
(*   SpecLimiter   the rate limiter of one key and its sweep               *)
(*   SpecOpening   Pool.Get step by step, with NewClient inside it         *)
(* Each specification leaves the variables of the others unchanged.        *)
(***************************************************************************)
EXTENDS Integers, Sequences, FiniteSets, TLC

(***************************************************************************)
(* Bounds of the model.                                                    *)
(***************************************************************************)
\* number of volume ids id.Generate() hands out in one behaviour
MaxVolumes == 2
Teams == {"t1", "t2"}
Names == {"a"}
IDs == 1..MaxVolumes
\* the handler goroutines that serve API requests at the same time
Reqs == {"r1", "r2"}

VARIABLES
    \* ---- volume lifecycle (API) ----
    build,       \* which PostVolumes the binary was built from: "acl" | "gcs"
    volumes,     \* the volumes table: id -> row or NoRow
    nextID,      \* next id of id.Generate()
    req,         \* the API requests in flight, one record per handler slot
    published,   \* volume events handed to the delivery bus
    resp,        \* the response on the wire, NoResp once the client has read it
    lastCreate,  \* history: (team, name) -> id answered by the latest 201
    \* ---- GCS proxy of one sandbox ----
    proxyReq,    \* the HTTP request the proxy is serving, NoRequest when idle
    proxyOut,    \* what wrapHandler did with it: "none" | "403" | "500" | "forwarded"
    \* ---- out-of-band JuiceFS client of one volume ----
    replica,     \* the Litestream replica under {volume_id}-meta/: a tree or NoReplica
    client,      \* the API's client of the volume: state and restored meta.db
    fsOut,       \* result of the client's latest call
    uploaded,    \* history: the latest Upload that returned success, if the
                 \* path has not been written or deleted since
    \* ---- sandbox-run event consumer ----
    sandbox,     \* lifecycle of the sandbox on the publishing side
    stream,      \* the Redis stream of sandbox events, in XADD order
    lastDelivered, \* the group's last-delivered id (an index into stream)
    pel,         \* the group's pending entries: message -> delivery time
    acked,       \* messages the group has XACKed
    runs,        \* the sandbox_runs table: sandbox_id -> row or NoRun
    now,         \* NOW() of the database and the clock of Redis, in minutes
    con,         \* the consumer goroutine: where it is, what it still has to
                 \* process, and the error of the message it processed last
    lastApplied, \* history: the message whose handler last returned nil
    lastAcked,   \* history: the message XACKed last
    failed,      \* history: messages whose handler has returned an error
    retried,     \* history: messages processed again after such an error
    \* ---- mount agent inside one VM ----
    metaDB,      \* /tmp/meta.db: whether it exists, its journal mode, its origin
    hasReplica,  \* whether gs://bucket/{volume_id}-meta holds a Litestream replica
    fuse,        \* the Mount calls whose FUSE mount is on mount_path
    daemons,     \* the Mount calls whose Litestream process is running
    litestreamCmd, \* Mounter.litestreamCmd of each Mount call's Mounter: set or nil
    currentMounter, \* the package variable: a Mount call's Mounter, or NoMounter
    mcall,       \* the Mount calls: where each is, the steps it has done, what
                 \* Step 2b saw, and whether a session was live when it began
    ucall,       \* the Unmount calls of POST /shutdown: where each is, the
                 \* steps it has done, and the sessions live when it began
    sessionLive, \* history: a Mount has returned nil and no Unmount has since
    \* ---- the lock of one JuiceFS client ----
    mu,          \* Client.mu: the calls holding it shared, the call holding it
                 \* exclusively
    call,        \* the file API requests using the client: which call each
                 \* makes and how far it is
    \* ---- the pool of JuiceFS clients ----
    clients,     \* Pool.clients: volume -> pooledClient or NoClientFor
    opened,      \* the clients NewClient has returned, in order: each one's
                 \* volume and whether Close has run on it
    poolNow,     \* time.Now() of the API process, in minutes
    got,         \* history: what the latest Get of each caller returned
    opOut,       \* caller -> how far its operation on the client it got is
                 \* ("pending", "streaming"), how it failed, or "none"
    \* ---- the bucket layout of the volumes ----
    volStatus,   \* volume -> status of its row, or "absent"
    objects,     \* volume -> the objects under {vol}/ and {vol}-meta/
    task,        \* volume -> how far the request working on it is
    answer,      \* volume -> the latest response about it
    \* ---- listing a directory page by page ----
    entries,     \* the names in the directory being listed
    listed,      \* the names of the pages received so far, in order
    nextToken,   \* the nextToken of the latest page, or NoToken
    pages,       \* pages received in this listing
    listing,     \* idle, more (pages to ask for), done or failed
    \* ---- the mount path check ----
    mountPath,   \* the mount path a sandbox was asked to attach a volume at
    mountErr,    \* what ValidateMountPath returned for it
    \* ---- the encryptor of volume passwords ----
    encryptor,   \* the Encryptor NewEncryptor made, by its key
    plain,       \* the plaintext given to Encrypt
    sealed,      \* what Encrypt returned
    decrypted,   \* what Decrypt returned for it
    \* ---- the name check of PostVolumes ----
    namedRows,   \* the names of the team's rows in volumes
    posted,      \* the latest POST /volumes: its name and its answer
    \* ---- the listing of sandbox runs ----
    runRows,     \* sandbox_runs: id -> team and created_at of the row, or NoRunRow
    runTeam,     \* the team of the client that lists
    runLimit,    \* its limit parameter, 0 when absent
    runToken,    \* the x-next-token of the last page, or NoToken
    runSeen,     \* the sandbox ids of the pages so far, in order
    runListing,  \* idle, paging or done
    \* ---- the rate limiter of one key ----
    limiters,    \* rateLimiter.limiters[key]: the entry of the key, or NoLimiter
    entriesMade, \* the limiterEntry objects made, in order: tokens and lastAccess
    rlNow,       \* time.Now() of the limiter, in minutes
    rlReq,       \* request -> how far its pass through the middleware is, its limiter
    allowance,   \* the tokens left in one bucket charged with every admitted request
    \* ---- Pool.Get step by step ----
    poolMu,      \* Pool.mu: the caller that holds it, or Unlocked
    getCall,     \* caller -> how far its Get is, and for which volume
    pooled       \* the volumes that have a client in Pool.clients

volVars == <<build, volumes, nextID, req, resp, published, lastCreate>>
proxyVars == <<proxyReq, proxyOut>>
fsVars == <<replica, client, fsOut, uploaded>>
consumerVars == <<sandbox, stream, lastDelivered, pel, acked, runs, now, con,
                  lastApplied, lastAcked, failed, retried>>

mountVars == <<metaDB, hasReplica, fuse, daemons, litestreamCmd,
               currentMounter, mcall, ucall, sessionLive>>

muVars == <<mu, call>>
poolVars == <<clients, opened, poolNow, got, opOut>>
bucketVars == <<volStatus, objects, task, answer>>
listingVars == <<entries, listed, nextToken, pages, listing>>

pathVars == <<mountPath, mountErr>>

cryptoVars == <<encryptor, plain, sealed, decrypted>>

nameVars == <<namedRows, posted>>

runsVars == <<runRows, runTeam, runLimit, runToken, runSeen, runListing>>

limiterVars == <<limiters, entriesMade, rlNow, rlReq, allowance>>

openingVars == <<poolMu, getCall, pooled>>

vars == <<volVars, proxyVars, fsVars, consumerVars, mountVars, muVars,
          poolVars, bucketVars, listingVars, pathVars, cryptoVars, nameVars,
          runsVars, limiterVars, openingVars>>

\* what the steps of one subsystem leave alone
notVolumes == <<proxyVars, fsVars, consumerVars, mountVars, muVars,
                poolVars, bucketVars, listingVars, pathVars, cryptoVars,
                nameVars, runsVars, limiterVars, openingVars>>
notProxy == <<volVars, fsVars, consumerVars, mountVars, muVars, poolVars,
              bucketVars, listingVars, pathVars, cryptoVars, nameVars,
              runsVars, limiterVars, openingVars>>
notFS == <<volVars, proxyVars, consumerVars, mountVars, muVars, poolVars,
           bucketVars, listingVars, pathVars, cryptoVars, nameVars,
           runsVars, limiterVars, openingVars>>
notConsumer == <<volVars, proxyVars, fsVars, mountVars, muVars, poolVars,
                 bucketVars, listingVars, pathVars, cryptoVars, nameVars,
                 runsVars, limiterVars, openingVars>>
notMount == <<volVars, proxyVars, fsVars, consumerVars, muVars, poolVars,
              bucketVars, listingVars, pathVars, cryptoVars, nameVars,
              runsVars, limiterVars, openingVars>>
notMu == <<volVars, proxyVars, fsVars, consumerVars, mountVars, poolVars,
           bucketVars, listingVars, pathVars, cryptoVars, nameVars,
           runsVars, limiterVars, openingVars>>
notPool == <<volVars, proxyVars, fsVars, consumerVars, mountVars, muVars,
             bucketVars, listingVars, pathVars, cryptoVars, nameVars,
             runsVars, limiterVars, openingVars>>
notBucket == <<volVars, proxyVars, fsVars, consumerVars, mountVars, muVars,
               poolVars, listingVars, pathVars, cryptoVars, nameVars,
               runsVars, limiterVars, openingVars>>
notListing == <<volVars, proxyVars, fsVars, consumerVars, mountVars, muVars,
                poolVars, bucketVars, pathVars, cryptoVars, nameVars,
                runsVars, limiterVars, openingVars>>
notPaths == <<volVars, proxyVars, fsVars, consumerVars, mountVars, muVars,
              poolVars, bucketVars, listingVars, cryptoVars, nameVars,
              runsVars, limiterVars, openingVars>>
notCrypto == <<volVars, proxyVars, fsVars, consumerVars, mountVars, muVars,
               poolVars, bucketVars, listingVars, pathVars, nameVars,
               runsVars, limiterVars, openingVars>>
notNames == <<volVars, proxyVars, fsVars, consumerVars, mountVars, muVars,
              poolVars, bucketVars, listingVars, pathVars, cryptoVars,
              runsVars, limiterVars, openingVars>>
notRuns == <<volVars, proxyVars, fsVars, consumerVars, mountVars, muVars,
             poolVars, bucketVars, listingVars, pathVars, cryptoVars,
             nameVars, limiterVars, openingVars>>
notLimiter == <<volVars, proxyVars, fsVars, consumerVars, mountVars, muVars,
                poolVars, bucketVars, listingVars, pathVars, cryptoVars,
                nameVars, runsVars, openingVars>>
notOpening == <<volVars, proxyVars, fsVars, consumerVars, mountVars, muVars,
                poolVars, bucketVars, listingVars, pathVars, cryptoVars,
                nameVars, runsVars, limiterVars>>

(***************************************************************************)
(* The volumes table.                                                      *)
(***************************************************************************)
NoRow == [team |-> "none", name |-> "none", status |-> "none"]

\* sql.ErrNoRows of a :one query, as the id 0
ErrNoRows == 0

\* position of a status on creating -> available -> deleting
StatusRank(s) == CASE s = "creating" -> 1 [] s = "available" -> 2 [] OTHER -> 3

\* GetVolume :one   SELECT * FROM volumes WHERE id = @id
GetVolume(id) ==
    IF id \in IDs /\ volumes[id] # NoRow THEN id ELSE ErrNoRows

GetVolumeByName_WrongColumn(team, name) == ErrNoRows

\* GetVolumeByName :one   SELECT * FROM volumes WHERE team_id = @team_id AND name = @name
GetVolumeByName(team, name) ==
    LET hit == {i \in IDs : volumes[i] # NoRow /\ volumes[i].team = team
                                               /\ volumes[i].name = name}
    IN IF hit = {} THEN ErrNoRows ELSE CHOOSE i \in hit : \A j \in hit : i <= j

UniqueViolation_NoConstraint(team, name) == FALSE

\* UNIQUE ("team_id", "name") of the volumes table
UniqueViolation(team, name) ==
    \E i \in IDs : volumes[i] # NoRow /\ volumes[i].team = team /\ volumes[i].name = name

\* UpdateVolumeStatus :one   UPDATE volumes SET status = @status WHERE id = @id RETURNING *
\* (the table after the statement; a missing row is reported by the caller)
UpdateVolumeStatus(id, status) ==
    IF volumes[id] = NoRow THEN volumes
    ELSE [volumes EXCEPT ![id].status = status]

\* DeleteVolume :exec   DELETE FROM volumes WHERE id = @id
DeleteVolume(id) == [volumes EXCEPT ![id] = NoRow]

resolveVolume_NoTeamCheck(team, arg) ==
    IF arg.kind = "id" THEN GetVolume(arg.val) ELSE GetVolumeByName(team, arg.val)

\* resolveVolume: by id when the argument starts with vol_, else by (team, name)
resolveVolume(team, arg) ==
    IF arg.kind = "id"
    THEN LET vol == GetVolume(arg.val)
         IN IF vol = ErrNoRows THEN ErrNoRows
            ELSE IF volumes[vol].team # team THEN ErrNoRows
            ELSE vol
    ELSE GetVolumeByName(team, arg.val)

\* resolveVolumeByID of the file API: the id must start with vol_
resolveVolumeByID(team, arg) ==
    IF arg.kind # "id" THEN ErrNoRows
    ELSE LET vol == GetVolume(arg.val)
         IN IF vol = ErrNoRows THEN ErrNoRows
            ELSE IF volumes[vol].team # team THEN ErrNoRows
            ELSE vol

(***************************************************************************)
(* API requests.  A slot holds the locals of a handler between its         *)
(* database calls; resp is the response on the wire until the client has   *)
(* read it.  The SELECTs of the lookups are taken to succeed; inserts,     *)
(* updates and deletes can fail.                                           *)
(***************************************************************************)
Args == [kind : {"id"}, val : IDs] \cup [kind : {"name"}, val : Names]

NoArg == [kind |-> "none", val |-> 0]

\* pc: idle | insert | init | activate (PostVolumes) | mark | remove (Delete)
\* vol, status: the queries.Volume the handler holds; prev: lastCreate as the
\* request arrived
IdleReq == [pc |-> "idle", team |-> "none", arg |-> NoArg, vol |-> 0,
            status |-> "none", prev |-> 0]

NoResp == [op |-> "none", team |-> "none", arg |-> NoArg, code |-> 0, msg |-> "",
           vol |-> 0, status |-> "none", prev |-> 0]

\* sendAPIStoreError / c.JSON / c.Status
Response(op, rec, code, msg) ==
    [op |-> op, team |-> rec.team, arg |-> rec.arg, code |-> code, msg |-> msg,
     vol |-> IF code \in {200, 201, 204} THEN rec.vol ELSE 0,
     status |-> IF code \in {200, 201, 204} THEN rec.status ELSE "none",
     prev |-> rec.prev]

RowStatus(vol) == IF vol = ErrNoRows THEN "none" ELSE volumes[vol].status

\* PostVolumes up to the idempotency check
PostVolumes_Lookup(r) ==
    /\ resp = NoResp
    /\ req[r].pc = "idle"
    /\ \E team \in Teams, name \in Names :
         LET existing == GetVolumeByName(team, name)
             rec == [IdleReq EXCEPT !.team = team,
                                    !.arg = [kind |-> "name", val |-> name],
                                    !.vol = existing, !.status = RowStatus(existing),
                                    !.prev = lastCreate[<<team, name>>]]
         IN \/ /\ existing # ErrNoRows
               /\ resp' = Response("create", rec, 200, "")
               /\ UNCHANGED <<req, nextID>>
            \/ /\ existing = ErrNoRows
               /\ nextID <= MaxVolumes
               \* volumeID := volumeIDPrefix + id.Generate()
               /\ req' = [req EXCEPT ![r] = [rec EXCEPT !.pc = "insert", !.vol = nextID]]
               /\ nextID' = nextID + 1
               /\ UNCHANGED resp
    /\ UNCHANGED <<build, volumes, published, lastCreate>>
    /\ UNCHANGED notVolumes

\* PostVolumes, CreateVolume: status 'creating' (volumes.go) or 'available'
\* with the event and the 201 at once (the build that leaves the format to envd)
PostVolumes_Insert(r) ==
    /\ resp = NoResp
    /\ req[r].pc = "insert"
    /\ LET team == req[r].team
           name == req[r].arg.val
           id == req[r].vol
       IN \/ \* the unique constraint, or another failure of the insert
             /\ resp' = Response("create", req[r], 500, "Failed to create volume")
             /\ req' = [req EXCEPT ![r] = IdleReq]
             /\ UNCHANGED <<volumes, published, lastCreate>>
          \/ /\ ~UniqueViolation(team, name)
             /\ build = "acl"
             /\ volumes' = [volumes EXCEPT ![id] =
                              [team |-> team, name |-> name, status |-> "creating"]]
             /\ req' = [req EXCEPT ![r].pc = "init", ![r].status = "creating"]
             /\ UNCHANGED <<resp, published, lastCreate>>
          \/ /\ ~UniqueViolation(team, name)
             /\ build = "gcs"
             /\ volumes' = [volumes EXCEPT ![id] =
                              [team |-> team, name |-> name, status |-> "available"]]
             /\ published' = published \cup {<<"volume.created", id>>}
             /\ lastCreate' = [lastCreate EXCEPT ![<<team, name>>] = id]
             /\ resp' = Response("create", [req[r] EXCEPT !.status = "available"], 201, "")
             /\ req' = [req EXCEPT ![r] = IdleReq]
    /\ UNCHANGED <<build, nextID>>
    /\ UNCHANGED notVolumes

\* PostVolumes, the Redis ACL user and juicefs.FormatVolume; on a failure of
\* either the row is marked 'deleting' (the update's error is dropped)
PostVolumes_Init(r) ==
    /\ resp = NoResp
    /\ req[r].pc = "init"
    /\ \/ /\ req' = [req EXCEPT ![r].pc = "activate"]
          /\ UNCHANGED <<volumes, resp>>
       \/ /\ volumes' = UpdateVolumeStatus(req[r].vol, "deleting")
          /\ resp' = Response("create", req[r], 500, "Failed to format volume")
          /\ req' = [req EXCEPT ![r] = IdleReq]
    /\ UNCHANGED <<build, nextID, published, lastCreate>>
    /\ UNCHANGED notVolumes

\* PostVolumes, UpdateVolumeStatus to 'available', the event and the 201
PostVolumes_Activate(r) ==
    /\ resp = NoResp
    /\ req[r].pc = "activate"
    /\ LET id == req[r].vol
           team == req[r].team
           name == req[r].arg.val
       IN \/ /\ volumes[id] # NoRow
             /\ volumes' = UpdateVolumeStatus(id, "available")
             /\ published' = published \cup {<<"volume.created", id>>}
             /\ lastCreate' = [lastCreate EXCEPT ![<<team, name>>] = id]
             /\ resp' = Response("create", [req[r] EXCEPT !.status = "available"], 201, "")
          \/ \* no row is returned (it was deleted meanwhile), or the update fails
             /\ resp' = Response("create", req[r], 500, "Failed to update volume status")
             /\ UNCHANGED <<volumes, published, lastCreate>>
    /\ req' = [req EXCEPT ![r] = IdleReq]
    /\ UNCHANGED <<build, nextID>>
    /\ UNCHANGED notVolumes

\* GetVolumesIdOrName
GetVolumesIdOrName(r) ==
    /\ resp = NoResp
    /\ req[r].pc = "idle"
    /\ \E team \in Teams, arg \in Args :
         LET vol == resolveVolume(team, arg)
             rec == [IdleReq EXCEPT !.team = team, !.arg = arg, !.vol = vol,
                                    !.status = RowStatus(vol)]
         IN resp' = IF vol = ErrNoRows THEN Response("get", rec, 404, "Volume not found")
                    ELSE Response("get", rec, 200, "")
    /\ UNCHANGED <<build, volumes, nextID, req, published, lastCreate>>
    /\ UNCHANGED notVolumes

\* the file API (list, download, upload, delete): resolveVolumeByID first; the
\* volume's filesystem client is reached only with the row it returned
VolumeFiles(r) ==
    /\ resp = NoResp
    /\ req[r].pc = "idle"
    /\ \E team \in Teams, arg \in Args :
         LET vol == resolveVolumeByID(team, arg)
             rec == [IdleReq EXCEPT !.team = team, !.arg = arg, !.vol = vol,
                                    !.status = RowStatus(vol)]
         IN resp' = IF vol = ErrNoRows THEN Response("file", rec, 404, "Volume not found")
                    ELSE Response("file", rec, 200, "")
    /\ UNCHANGED <<build, volumes, nextID, req, published, lastCreate>>
    /\ UNCHANGED notVolumes

\* DeleteVolumesIdOrName, resolveVolume and the volume.deleted event
DeleteVolumes_Resolve(r) ==
    /\ resp = NoResp
    /\ req[r].pc = "idle"
    /\ \E team \in Teams, arg \in Args :
         LET vol == resolveVolume(team, arg)
             rec == [IdleReq EXCEPT !.team = team, !.arg = arg, !.vol = vol,
                                    !.status = RowStatus(vol)]
         IN \/ /\ vol = ErrNoRows
               /\ resp' = Response("delete", rec, 404, "Volume not found")
               /\ UNCHANGED <<req, published>>
            \/ /\ vol # ErrNoRows
               /\ req' = [req EXCEPT ![r] = [rec EXCEPT !.pc = "mark"]]
               /\ published' = published \cup {<<"volume.deleted", vol>>}
               /\ UNCHANGED resp
    /\ UNCHANGED <<build, volumes, nextID, lastCreate>>
    /\ UNCHANGED notVolumes

\* DeleteVolumesIdOrName, UpdateVolumeStatus to 'deleting'
DeleteVolumes_Mark(r) ==
    /\ resp = NoResp
    /\ req[r].pc = "mark"
    /\ LET id == req[r].vol
       IN \/ /\ volumes[id] # NoRow
             /\ volumes' = UpdateVolumeStatus(id, "deleting")
             /\ req' = [req EXCEPT ![r].pc = "remove"]
             /\ UNCHANGED resp
          \/ \* no row is returned, or the update fails
             /\ resp' = Response("delete", req[r], 500, "Failed to update volume status")
             /\ req' = [req EXCEPT ![r] = IdleReq]
             /\ UNCHANGED volumes
    /\ UNCHANGED <<build, nextID, published, lastCreate>>
    /\ UNCHANGED notVolumes

\* DeleteVolumesIdOrName, the best-effort destroy and DeleteVolume
DeleteVolumes_Remove(r) ==
    /\ resp = NoResp
    /\ req[r].pc = "remove"
    /\ LET id == req[r].vol
       IN \/ /\ volumes' = DeleteVolume(id)
             /\ lastCreate' = [k \in DOMAIN lastCreate |->
                                  IF lastCreate[k] = id THEN 0 ELSE lastCreate[k]]
             /\ resp' = Response("delete", req[r], 204, "")
          \/ \* the delete fails
             /\ resp' = Response("delete", req[r], 500, "Failed to delete volume")
             /\ UNCHANGED <<volumes, lastCreate>>
    /\ req' = [req EXCEPT ![r] = IdleReq]
    /\ UNCHANGED <<build, nextID, published>>
    /\ UNCHANGED notVolumes

\* the client takes the response off the wire
ClientReads ==
    /\ resp # NoResp
    /\ resp' = NoResp
    /\ UNCHANGED <<build, volumes, nextID, req, published, lastCreate>>
    /\ UNCHANGED notVolumes

InitVolumes ==
    /\ build \in {"acl", "gcs"}
    /\ volumes = [i \in IDs |-> NoRow]
    /\ nextID = 1
    /\ req = [r \in Reqs |-> IdleReq]
    /\ resp = NoResp
    /\ published = {}
    /\ lastCreate = [k \in Teams \X Names |-> 0]

NextVolumes ==
    \/ ClientReads
    \/ \E r \in Reqs :
        \/ PostVolumes_Lookup(r)
        \/ PostVolumes_Insert(r)
        \/ PostVolumes_Init(r)
        \/ PostVolumes_Activate(r)
        \/ GetVolumesIdOrName(r)
        \/ VolumeFiles(r)
        \/ DeleteVolumes_Resolve(r)
        \/ DeleteVolumes_Mark(r)
        \/ DeleteVolumes_Remove(r)


(***************************************************************************)
(* Claims about the volume lifecycle, checked under SpecVolumes.           *)
(***************************************************************************)
LiveRows(team, name) ==
    {i \in IDs : volumes[i] # NoRow /\ volumes[i].team = team /\ volumes[i].name = name
                 /\ volumes[i].status # "deleting"}

Creating(r) == req[r].pc \in {"insert", "init", "activate"}
Deleting(r) == req[r].pc \in {"mark", "remove"}

\* C1: in every reachable state, for every team T and name N at most one row
\* with (team_id, name) = (T, N) has a status other than 'deleting'.
C1_UniqueTeamName ==
    \A team \in Teams, name \in Names : Cardinality(LiveRows(team, name)) <= 1

\* two PostVolumes for the same (team, name) raced: the second insert was
\* refused while the first one's row is there
C1_Witness ==
    /\ resp.op = "create" /\ resp.code = 500 /\ resp.msg = "Failed to create volume"
    /\ LiveRows(resp.team, resp.arg.val) # {}

\* C2: a Create(T, N) that follows a Create(T, N) answered 201, with the row
\* not removed in between, answers 200 with the same volume_id and inserts
\* no row: it ends at the idempotency check.
C2_IdempotentCreate ==
    /\ (resp.op = "create" /\ resp.prev # 0) =>
          /\ resp.code = 200
          /\ resp.vol = resp.prev
          /\ Cardinality({i \in IDs : volumes[i] # NoRow /\ volumes[i].team = resp.team
                                      /\ volumes[i].name = resp.arg.val}) = 1
    /\ \A r \in Reqs : Creating(r) => req[r].prev = 0

C2_Witness == resp.op = "create" /\ resp.prev # 0 /\ resp.code = 200

\* C3: a volume's status only moves forward along creating -> available ->
\* deleting, under any interleaving of Create, Delete and their failure
\* handling.
C3_StatusMonotonic ==
    [][\A i \in IDs : (volumes[i] # NoRow /\ volumes'[i] # NoRow) =>
            StatusRank(volumes'[i].status) >= StatusRank(volumes[i].status)]_vars

\* C4: no lookup by (team, name) returns a row whose status is 'deleting':
\* not the resolution of Get and Delete, not the existence check of Create.
C4_DeletingNeverReturnedByName ==
    /\ (resp.arg.kind = "name" /\ resp.code = 200) => resp.status # "deleting"
    /\ \A r \in Reqs : (Deleting(r) /\ req[r].arg.kind = "name") =>
                           req[r].status # "deleting"

\* the response of a by-id handler to an id that has no row
NotFound(op, team, arg) ==
    [op |-> op, team |-> team, arg |-> arg, code |-> 404, msg |-> "Volume not found",
     vol |-> 0, status |-> "none", prev |-> 0]

CrossTeam(team, arg) ==
    arg.kind = "id" /\ volumes[arg.val] # NoRow /\ volumes[arg.val].team # team

\* C5: a by-id request (get, delete, file API) of a team on a volume of
\* another team is answered exactly as for an id that has no row, and never
\* goes on to the steps of Delete that change the volume.
C5_CrossTeamNotFound ==
    /\ CrossTeam(resp.team, resp.arg) => resp = NotFound(resp.op, resp.team, resp.arg)
    /\ \A r \in Reqs : Deleting(r) => ~CrossTeam(req[r].team, req[r].arg)
    /\ \A r \in Reqs : (Deleting(r) /\ volumes[req[r].vol] # NoRow) =>
                           volumes[req[r].vol].team = req[r].team

C5_Witness == resp.op = "delete" /\ CrossTeam(resp.team, resp.arg) /\ resp.code = 404

\* C31: two concurrent Creates of one (team, name) both complete without
\* error: no Create is answered "Failed to create volume" while the row of
\* that team and name exists, that is, because its insert collided with the
\* other Create's row.
C31_CollisionRecovered ==
    (resp.op = "create" /\ resp.msg = "Failed to create volume")
        => GetVolumeByName(resp.team, resp.arg.val) = ErrNoRows


\* C35: volume.deleted is published only for a volume whose row is removed:
\* when a Delete has been answered 500, every volume that a volume.deleted
\* event was published for, and that no Delete is still working on, has no
\* row any more.
C35_DeletedEventMeansRowGone ==
    \A id \in IDs :
        (/\ resp.op = "delete" /\ resp.code = 500
         /\ <<"volume.deleted", id>> \in published
         /\ \A r \in Reqs : ~(Deleting(r) /\ req[r].vol = id))
            => volumes[id] = NoRow

(***************************************************************************)
(* The GCS proxy (gcsproxy/proxy.go).  Strings are sequences of characters *)
(* over a small alphabet; "%2F" and "%zz" stand for a valid and an invalid *)
(* percent-escape left in r.URL.Path after the server decoded it once.     *)
(***************************************************************************)
\* longest object name, prefix or path object of a request
MaxNameLen == 2
QueryChars == {"v", "x", "/"}
PathChars == QueryChars \cup {"%2F", "%zz"}
Strings(chars, n) == UNION {[1..k -> chars] : k \in 0..n}

\* p.config.VolumeID and the volumePrefix of isPathAllowed
VolumeID == <<"v">>
volumePrefix == VolumeID \o <<"/">>

\* strings.HasPrefix
HasPrefix(s, prefix) ==
    Len(s) >= Len(prefix) /\ SubSeq(s, 1, Len(prefix)) = prefix

\* url.PathUnescape: err on an invalid escape, else every escape decoded
PathUnescape(s) ==
    [err |-> \E i \in 1..Len(s) : s[i] = "%zz",
     val |-> [i \in 1..Len(s) |-> IF s[i] = "%2F" THEN "/" ELSE s[i]]]

\* r.URL.RawQuery after url.ParseQuery: raw is "empty" (query == ""), "ok"
\* (parsed; name and prefix are values.Get, "" when absent, other parameters
\* such as alt=media may be there) or "bad" (ParseQuery returned an error)
Queries ==
    [raw : {"empty", "bad"}, name : {<<>>}, prefix : {<<>>}]
      \cup [raw : {"ok"}, name : Strings(QueryChars, MaxNameLen),
            prefix : Strings(QueryChars, MaxNameLen)]

\* r.URL.Path: inBucket is strings.Contains(path, "/b/" + Bucket), hasO is
\* strings.Contains(path, "/o/"), object is what follows the first "/o/"
Paths ==
    [inBucket : BOOLEAN, hasO : {FALSE}, object : {<<>>}]
      \cup [inBucket : BOOLEAN, hasO : {TRUE}, object : Strings(PathChars, MaxNameLen)]

Requests == [path : Paths, query : Queries]
NoRequest == [path |-> [inBucket |-> FALSE, hasO |-> FALSE, object |-> <<>>],
              query |-> [raw |-> "none", name |-> <<>>, prefix |-> <<>>]]

isPathAllowed(path, query) ==
    IF query.raw = "ok" /\ query.name # <<>>
    THEN HasPrefix(query.name, volumePrefix)
    ELSE IF query.raw = "ok" /\ query.prefix # <<>>
    THEN HasPrefix(query.prefix, volumePrefix)
    ELSE IF path.hasO
    THEN /\ ~PathUnescape(path.object).err
         /\ HasPrefix(PathUnescape(path.object).val, volumePrefix)
    ELSE path.inBucket /\ query.raw = "empty"

\* a request arrives on the proxy's listener
ProxyReceives ==
    /\ proxyReq = NoRequest
    /\ proxyReq' \in Requests
    /\ proxyOut' = "none"
    /\ UNCHANGED notProxy

\* wrapHandler: the path check, then the token, then the reverse proxy
wrapHandler ==
    /\ proxyReq # NoRequest
    /\ proxyOut = "none"
    /\ IF ~isPathAllowed(proxyReq.path, proxyReq.query)
       THEN proxyOut' = "403"
       ELSE \E tokenErr \in BOOLEAN :
               proxyOut' = IF tokenErr THEN "500" ELSE "forwarded"
    /\ UNCHANGED proxyReq
    /\ UNCHANGED notProxy

\* the response is written, the handler returns
ProxyResponds ==
    /\ proxyOut # "none"
    /\ proxyReq' = NoRequest
    /\ proxyOut' = "none"
    /\ UNCHANGED notProxy

InitProxy == proxyReq = NoRequest /\ proxyOut = "none"

NextProxy == ProxyReceives \/ wrapHandler \/ ProxyResponds

\* the objects a request names to the store: the object of the /o/{object}
\* path as the store reads it, and the name and prefix parameters
NamedObjects(r) ==
    (IF r.path.hasO /\ r.path.object # <<>> THEN {r.path.object} ELSE {})
      \cup (IF r.query.name # <<>> THEN {r.query.name} ELSE {})
      \cup (IF r.query.prefix # <<>> THEN {r.query.prefix} ELSE {})

\* C6: every request the proxy forwards names only objects that start with
\* {volume_id}/, and a request naming an object outside that prefix is
\* answered 403.
C6_ForwardedWithinPrefix ==
    /\ proxyOut = "forwarded" =>
          \A n \in NamedObjects(proxyReq) : HasPrefix(n, volumePrefix)
    /\ (proxyOut # "none" /\ \E n \in NamedObjects(proxyReq) : ~HasPrefix(n, volumePrefix))
          => proxyOut = "403"


(***************************************************************************)
(* The out-of-band JuiceFS client (juicefs.Client) of one volume.  The     *)
(* file tree lives in the SQLite meta.db: the client works on a copy       *)
(* restored from the Litestream replica and replicates it back after each  *)
(* write.  File data goes to the object store when the file is flushed.    *)
(***************************************************************************)
\* longest file content
MaxContentLen == 1
Bytes == {"a", "b"}
Contents == UNION {[1..k -> Bytes] : k \in 0..MaxContentLen}
FilePaths == {"/f", "/d/g"}
\* what a path that holds no file maps to (no content is this sequence)
NoFile == <<"ENOENT">>

\* filepath.Dir(path) when it is not "/"
Dir(path) == IF path = "/d/g" THEN {"/d"} ELSE {}

\* a file tree: the content of every file, and the directories
EmptyTree == [files |-> [p \in FilePaths |-> NoFile], dirs |-> {}]
NoReplica == [files |-> [p \in FilePaths |-> NoFile], dirs |-> {"no replica"}]
NoClient == [state |-> "none", meta |-> EmptyTree]
NoUpload == [path |-> "none", content |-> <<>>, over |-> NoFile]
NoOut == [op |-> "none", path |-> "none", ok |-> TRUE, content |-> NoFile]

\* f.Pwrite(buf, offset) on a file holding old
Pwrite(old, buf, offset) ==
    [i \in 1..(IF offset + Len(buf) > Len(old) THEN offset + Len(buf) ELSE Len(old)) |->
        IF i > offset /\ i <= offset + Len(buf) THEN buf[i - offset] ELSE old[i]]

\* jfs.Create, or jfs.Open and jfs.Truncate(path, 0) on EEXIST
CreateOrTruncate(tree, path) ==
    [files |-> [tree.files EXCEPT ![path] = <<>>], dirs |-> tree.dirs \cup Dir(path)]

\* the tree after the writes of Upload: MkdirAll, create or truncate, the
\* Pwrite loop from offset 0, Flush
Written(tree, path, content) ==
    LET t == CreateOrTruncate(tree, path)
    IN [t EXCEPT !.files[path] = Pwrite(t.files[path], content, 0)]

\* syncToGCSLocked / syncViaLitestream: "ok" replicates meta.db; "failed"
\* (litestream exits non-zero) returns an error; "timeout" returns nil
\* with the replica written or not
SyncOutcomes == {"ok", "failed", "timeout-synced", "timeout-unsynced"}
Synced(outcome, tree) ==
    IF outcome \in {"ok", "timeout-synced"} THEN tree ELSE replica

\* NewClient: litestream restore, then the JuiceFS client over the copy
NewClient ==
    /\ client.state # "open"
    /\ \/ /\ replica = NoReplica
          /\ client' = NoClient
          /\ fsOut' = [NoOut EXCEPT !.op = "open", !.ok = FALSE]
       \/ /\ replica # NoReplica
          /\ \/ /\ client' = [state |-> "open", meta |-> replica]
                /\ fsOut' = [NoOut EXCEPT !.op = "open"]
             \/ /\ client' = NoClient
                /\ fsOut' = [NoOut EXCEPT !.op = "open", !.ok = FALSE]
    /\ UNCHANGED <<replica, uploaded>>
    /\ UNCHANGED notFS

\* Client.Close: the session ends and tmpDir, with meta.db, is removed
Close ==
    /\ client.state = "open"
    /\ client' = [state |-> "closed", meta |-> EmptyTree]
    /\ fsOut' = [NoOut EXCEPT !.op = "close"]
    /\ UNCHANGED <<replica, uploaded>>
    /\ UNCHANGED notFS

\* Client.Download
Download ==
    /\ client.state = "open"
    /\ \E path \in FilePaths :
         fsOut' = [op |-> "download", path |-> path,
                   ok |-> client.meta.files[path] # NoFile,
                   content |-> client.meta.files[path]]
    /\ UNCHANGED <<replica, client, uploaded>>
    /\ UNCHANGED notFS

\* Client.Upload
Upload ==
    /\ client.state = "open"
    /\ \E path \in FilePaths, content \in Contents :
         \/ \* an errno from Create, Truncate, Pwrite or Flush: the error is
            \* returned, the file is left created or truncated, nothing syncs
            /\ client' = [client EXCEPT !.meta = CreateOrTruncate(client.meta, path)]
            /\ fsOut' = [op |-> "upload", path |-> path, ok |-> FALSE, content |-> NoFile]
            /\ uploaded' = IF uploaded.path = path THEN NoUpload ELSE uploaded
            /\ UNCHANGED replica
         \/ \E outcome \in SyncOutcomes :
              LET tree == Written(client.meta, path, content)
              IN /\ client' = [client EXCEPT !.meta = tree]
                 /\ replica' = Synced(outcome, tree)
                 \* a sync error is logged, Upload returns totalWritten, nil
                 /\ fsOut' = [op |-> "upload", path |-> path, ok |-> TRUE,
                              content |-> content]
                 \* history: this upload, and the upload it overwrote
                 /\ uploaded' = [path |-> path, content |-> content,
                                 over |-> IF uploaded.path = path
                                          THEN uploaded.content ELSE NoFile]
    /\ UNCHANGED notFS

\* Client.Delete of a file
Delete ==
    /\ client.state = "open"
    /\ \E path \in FilePaths :
         /\ fsOut' = [op |-> "delete", path |-> path, ok |-> TRUE, content |-> NoFile]
         /\ uploaded' = IF uploaded.path = path THEN NoUpload ELSE uploaded
         /\ IF client.meta.files[path] = NoFile
            THEN \* ENOENT: "already deleted", returned before the sync
                 UNCHANGED <<client, replica>>
            ELSE \E outcome \in SyncOutcomes :
                   LET tree == [client.meta EXCEPT !.files[path] = NoFile]
                   IN /\ client' = [client EXCEPT !.meta = tree]
                      /\ replica' = Synced(outcome, tree)
    /\ UNCHANGED notFS

\* Mounter.Mount in the first sandbox that mounts the volume: restore finds
\* no replica, formatVolume makes an empty tree, Litestream replicates it
SandboxFormats ==
    /\ replica = NoReplica
    /\ replica' = EmptyTree
    /\ UNCHANGED <<client, fsOut, uploaded>>
    /\ UNCHANGED notFS

\* a volume that no sandbox has mounted yet has no replica
InitFS ==
    /\ replica = NoReplica
    /\ client = NoClient
    /\ fsOut = NoOut
    /\ uploaded = NoUpload

NextFS == SandboxFormats \/ NewClient \/ Close \/ Download \/ Upload \/ Delete

\* C7: once Upload(path, content) has returned success, a client opened
\* afterwards finds the file at path with that content (as long as nothing
\* wrote or deleted the path in between).
C7_UploadVisibleToFreshOpen ==
    /\ (fsOut.op = "open" /\ fsOut.ok /\ uploaded # NoUpload) =>
          client.meta.files[uploaded.path] = uploaded.content
    /\ (fsOut.op = "download" /\ uploaded # NoUpload /\ fsOut.path = uploaded.path) =>
          (fsOut.ok /\ fsOut.content = uploaded.content)

\* C26: after Upload(p, A) and then Upload(p, B) have both returned success,
\* with no delete of p in between or after, Download(p) succeeds and returns
\* exactly B: no byte of A, also when B is shorter than A.
C26_OverwriteReturnsLatest ==
    (/\ fsOut.op = "download"
     /\ fsOut.path = uploaded.path
     /\ uploaded.over # NoFile)
        => (fsOut.ok /\ fsOut.content = uploaded.content)


(***************************************************************************)
(* The sandbox-run event consumer (sandboxruns.Consumer) over the Redis    *)
(* stream and its consumer group, and the sandbox_runs table it writes.    *)
(* One sandbox goes through its lifecycle and publishes an event at every  *)
(* change; one consumer runs the loop of Run.  A handler's database call   *)
(* and the XAck that follows it are one step.                              *)
(***************************************************************************)
\* messages XADDed in one behaviour
MaxMsgs == 3
\* the clock stops here
MaxTime == 10
\* consumer.go: batchSize, claimTime (minutes), and Count of XAutoClaim
batchSize == 100
claimTime == 5
claimCount == 10

Sandboxes == {"sbx1"}
Msgs == 1..MaxMsgs
NULL == "NULL"
NoRun == [status |-> "none", end_reason |-> NULL, created_at |-> -1,
          updated_at |-> -1, ended_at |-> -1]
NotPending == -1

\* the events a sandbox in a given state can publish next, and its next state
Lifecycle ==
    {<<"none", "created", "running">>, <<"running", "paused", "paused">>,
     <<"paused", "resumed", "running">>, <<"running", "killed", "killed">>,
     <<"paused", "killed", "killed">>}
\* EventData["end_reason"] of a killed event: absent, or a reason
EndReasons == {"", "timeout"}

\* first n elements of a sequence
Take(seq, n) == SubSeq(seq, 1, IF Len(seq) < n THEN Len(seq) ELSE n)
\* the elements of a set of message ids in id order
RECURSIVE InOrder(_)
InOrder(set) ==
    IF set = {} THEN <<>>
    ELSE LET m == CHOOSE x \in set : \A y \in set : x <= y
         IN <<m>> \o InOrder(set \ {m})

\* CreateSandboxRun: the unique index on sandbox_id refuses a second row
CreateSandboxRun(sbx) ==
    IF runs[sbx] # NoRun
    THEN [err |-> "duplicate key", runs |-> runs]
    ELSE [err |-> "",
          runs |-> [runs EXCEPT ![sbx] =
                      [status |-> "running", end_reason |-> NULL, created_at |-> now,
                       updated_at |-> now, ended_at |-> -1]]]

\* UpdateSandboxRunStatus :exec, nil also when no row matches
UpdateSandboxRunStatus(sbx, status) ==
    IF runs[sbx] = NoRun THEN runs
    ELSE [runs EXCEPT ![sbx].status = status, ![sbx].updated_at = now]

\* EndSandboxRun :exec, nil also when no row matches
EndSandboxRun(sbx, reason) ==
    IF runs[sbx] = NoRun THEN runs
    ELSE [runs EXCEPT ![sbx].status = "stopped", ![sbx].end_reason = reason,
                      ![sbx].ended_at = now, ![sbx].updated_at = now]

handleCreated(ev) ==
    LET ins == CreateSandboxRun(ev.sbx)
    IN [err |-> FALSE, runs |-> ins.runs]

handleKilled(ev) ==
    [err |-> FALSE,
     runs |-> EndSandboxRun(ev.sbx, IF ev.reason # "" THEN ev.reason ELSE "killed")]

handlePaused(ev) ==
    [err |-> FALSE, runs |-> UpdateSandboxRunStatus(ev.sbx, "paused")]

handleResumed(ev) ==
    LET ins == CreateSandboxRun(ev.sbx)
    IN IF ins.err = "duplicate key"
       THEN [err |-> FALSE, runs |-> UpdateSandboxRunStatus(ev.sbx, "running")]
       ELSE [err |-> FALSE, runs |-> ins.runs]

\* processMessage and handleEvent: a payload that does not parse is skipped
processMessage(ev) ==
    CASE ev.type = "created" -> handleCreated(ev)
      [] ev.type = "killed" -> handleKilled(ev)
      [] ev.type = "paused" -> handlePaused(ev)
      [] ev.type = "resumed" -> handleResumed(ev)
      [] OTHER -> [err |-> FALSE, runs |-> runs]

WellFormed(ev) == ev.type \in {"created", "killed", "paused", "resumed"}

\* the sandbox changes state and the event is XADDed
Publish ==
    /\ Len(stream) < MaxMsgs
    /\ \E sbx \in Sandboxes, step \in Lifecycle, reason \in EndReasons :
         /\ sandbox[sbx] = step[1]
         /\ reason # "" => step[2] = "killed"
         /\ sandbox' = [sandbox EXCEPT ![sbx] = step[3]]
         /\ stream' = Append(stream, [type |-> step[2], sbx |-> sbx, reason |-> reason])
    /\ UNCHANGED <<lastDelivered, pel, acked, runs, now, con, lastApplied, lastAcked,
                   failed, retried>>
    /\ UNCHANGED notConsumer

\* a message whose payload is not a JSON event is XADDed
PublishMalformed ==
    /\ Len(stream) < MaxMsgs
    /\ \E sbx \in Sandboxes :
         stream' = Append(stream, [type |-> "malformed", sbx |-> sbx, reason |-> ""])
    /\ UNCHANGED <<sandbox, lastDelivered, pel, acked, runs, now, con, lastApplied,
                   lastAcked, failed, retried>>
    /\ UNCHANGED notConsumer

\* claimTime passes
Tick ==
    /\ now + claimTime <= MaxTime
    /\ now' = now + claimTime
    /\ UNCHANGED <<sandbox, stream, lastDelivered, pel, acked, runs, con, lastApplied,
                   lastAcked, failed, retried>>
    /\ UNCHANGED notConsumer

\* Run: the loop calls processBatch
Run ==
    /\ con.pc = "loop"
    /\ con' = [con EXCEPT !.pc = "read"]
    /\ UNCHANGED <<sandbox, stream, lastDelivered, pel, acked, runs, now, lastApplied,
                   lastAcked, failed, retried>>
    /\ UNCHANGED notConsumer

\* processBatch, XReadGroup ">": the messages after the last delivered one
\* become pending for the consumer; with none, redis.Nil comes back after
\* blockTime and processBatch returns
processBatch_XReadGroup ==
    /\ con.pc = "read"
    /\ LET new == Take([i \in 1..(Len(stream) - lastDelivered) |-> lastDelivered + i],
                       batchSize)
       IN IF new = <<>>
          THEN /\ con' = [con EXCEPT !.pc = "loop"]
               /\ UNCHANGED <<lastDelivered, pel>>
          ELSE /\ con' = [con EXCEPT !.pc = "batch", !.batch = new]
               /\ lastDelivered' = new[Len(new)]
               /\ pel' = [m \in Msgs |->
                            IF \E i \in 1..Len(new) : new[i] = m THEN now ELSE pel[m]]
    /\ UNCHANGED <<sandbox, stream, acked, runs, now, lastApplied, lastAcked, failed,
                   retried>>
    /\ UNCHANGED notConsumer

\* one message of the batch in hand: processMessage, then XAck when it
\* returned nil.  The database call can fail; the reply of XAck is not looked
\* at, so a lost XAck leaves the message pending.
Process(next) ==
    /\ con.batch # <<>>
    /\ LET m == Head(con.batch)
           ev == stream[m]
           rest == Tail(con.batch)
       IN /\ \/ \* the handler's query returns an error
                /\ WellFormed(ev)
                /\ con' = [pc |-> IF rest = <<>> THEN next ELSE con.pc,
                           batch |-> rest, err |-> TRUE]
                /\ failed' = failed \cup {m}
                /\ UNCHANGED <<runs, pel, acked, lastApplied, lastAcked>>
             \/ \E xack \in BOOLEAN :
                  /\ con' = [pc |-> IF rest = <<>> THEN next ELSE con.pc,
                             batch |-> rest, err |-> processMessage(ev).err]
                  /\ runs' = processMessage(ev).runs
                  /\ lastApplied' = IF WellFormed(ev) THEN m ELSE lastApplied
                  /\ pel' = IF xack THEN [pel EXCEPT ![m] = NotPending] ELSE pel
                  /\ acked' = IF xack THEN acked \cup {m} ELSE acked
                  /\ lastAcked' = IF xack THEN m ELSE lastAcked
                  /\ UNCHANGED failed
          /\ retried' = IF m \in failed THEN retried \cup {m} ELSE retried
    /\ UNCHANGED <<sandbox, stream, lastDelivered, now>>
    /\ UNCHANGED notConsumer

\* processBatch, the loop over the messages read; claimPendingMessages follows
processBatch_Message ==
    /\ con.pc = "batch"
    /\ Process("claim")

\* claimPendingMessages, XAutoClaim from "0": the first Count pending
\* messages idle for claimTime are handed to the consumer, their idle time reset
claimPendingMessages_XAutoClaim ==
    /\ con.pc = "claim"
    /\ LET idle == {m \in Msgs : pel[m] # NotPending /\ now - pel[m] >= claimTime}
           claimed == Take(InOrder(idle), claimCount)
       IN /\ con' = [con EXCEPT !.pc = IF claimed = <<>> THEN "loop" ELSE "claimed",
                                !.batch = claimed]
          /\ pel' = [m \in Msgs |->
                       IF \E i \in 1..Len(claimed) : claimed[i] = m THEN now ELSE pel[m]]
    /\ UNCHANGED <<sandbox, stream, lastDelivered, acked, runs, now, lastApplied,
                   lastAcked, failed, retried>>
    /\ UNCHANGED notConsumer

\* claimPendingMessages, the loop over the claimed messages
claimPendingMessages_Message ==
    /\ con.pc = "claimed"
    /\ Process("loop")

InitConsumer ==
    /\ sandbox = [sbx \in Sandboxes |-> "none"]
    /\ stream = <<>>
    /\ lastDelivered = 0
    /\ pel = [m \in Msgs |-> NotPending]
    /\ acked = {}
    /\ runs = [sbx \in Sandboxes |-> NoRun]
    /\ now = 0
    /\ con = [pc |-> "loop", batch |-> <<>>, err |-> FALSE]
    /\ lastApplied = 0
    /\ lastAcked = 0
    /\ failed = {}
    /\ retried = {}

ConsumerStep ==
    \/ Run
    \/ processBatch_XReadGroup
    \/ processBatch_Message
    \/ claimPendingMessages_XAutoClaim
    \/ claimPendingMessages_Message

NextConsumer == Publish \/ PublishMalformed \/ Tick \/ ConsumerStep

\* the consumer's step from here processes the message at the head of its
\* batch, and the handler returns nil
Applies(m) ==
    /\ con.pc \in {"batch", "claimed"} /\ con.batch # <<>> /\ Head(con.batch) = m
    /\ con'.batch = Tail(con.batch) /\ ~con'.err
    /\ lastApplied' = m

\* C8: applying an event again right after it was applied, as on a
\* redelivery, leaves the sandbox_runs table as the first application left it.
C8_ReapplyChangesNothing ==
    [][\A m \in Msgs : (lastApplied = m /\ Applies(m)) => runs' = runs]_vars

\* what the event's insert or update leaves in the row
Reflects(row, ev) ==
    /\ row # NoRun
    /\ ev.type = "paused" => row.status = "paused"
    /\ ev.type = "resumed" => row.status = "running"
    /\ ev.type = "killed" =>
          /\ row.status = "stopped"
          /\ row.end_reason = IF ev.reason # "" THEN ev.reason ELSE "killed"

\* C9: when the consumer has just XACKed a well-formed event, the row of
\* the event's sandbox reflects the event's insert or update.  (The table
\* only changes in the steps that process a message, so between two such
\* steps it is as it was at the XAck.)
C9_AckedWasApplied ==
    (lastAcked # 0 /\ WellFormed(stream[lastAcked])) =>
        Reflects(runs[stream[lastAcked].sbx], stream[lastAcked])

\* C10: a message whose handler returned an error is not acked by that
\* attempt, stays pending, and is eventually processed again.
C10_FailedIsRetried ==
    /\ [](\A m \in failed \ retried : m \notin acked /\ pel[m] # NotPending)
    /\ \A m \in Msgs : (m \in failed) ~> (m \in retried)

\* C11: in every row of sandbox_runs, end_reason is non-null exactly when
\* status is 'stopped', whatever events and redeliveries were applied.
C11_EndReasonIffStopped ==
    \A sbx \in Sandboxes :
        runs[sbx] # NoRun =>
            (runs[sbx].end_reason # NULL <=> runs[sbx].status = "stopped")

\* C32: a sandbox whose created event and, after it, killed event were both
\* published ends with its row in sandbox_runs at status 'stopped': once the
\* consumer has acknowledged every message of that sandbox, so that nothing
\* of it is left to deliver or to claim, the row exists and is 'stopped',
\* also when the created event failed and was retried after the killed one.
C32_KilledEndsStopped ==
    \A sbx \in Sandboxes :
        (/\ \E i, j \in 1..Len(stream) :
                /\ i < j
                /\ stream[i].sbx = sbx /\ stream[i].type = "created"
                /\ stream[j].sbx = sbx /\ stream[j].type = "killed"
         /\ \A m \in 1..Len(stream) : stream[m].sbx = sbx => m \in acked)
            => (runs[sbx] # NoRun /\ runs[sbx].status = "stopped")

\* C36: every message that has been pending for claimTime is eventually
\* claimed by XAutoClaim and handed to processMessage (or is acknowledged),
\* whatever becomes of the pending messages before it.
C36_IdlePendingIsClaimed ==
    \A m \in Msgs :
        (pel[m] # NotPending /\ now - pel[m] >= claimTime)
            ~> (\/ pel[m] = NotPending
                \/ /\ con.pc = "claimed"
                   /\ \E i \in 1..Len(con.batch) : con.batch[i] = m)

\* C22: an iteration of the loop of Run that ends while a message has been
\* pending for claimTime has gone through claimPendingMessages.
C22_EveryIterationClaims ==
    [][(/\ con.pc # "loop"
        /\ con'.pc = "loop"
        /\ \E m \in Msgs : pel[m] # NotPending /\ now - pel[m] >= claimTime)
       => con.pc \in {"claim", "claimed"}]_vars

\* net/http status codes the file API answers with
StatusOK == 200
StatusInternalServerError == 500
StatusServiceUnavailable == 503

\* the file API handlers around the client: 503 without a pool, 500 when
\* Pool.Get (NewClient) returns an error, otherwise the call's own answer
FileAPIStatus(poolConfigured, out) ==
    IF ~poolConfigured THEN StatusServiceUnavailable
    ELSE IF out.op = "open" /\ ~out.ok THEN StatusInternalServerError
    ELSE StatusOK

\* C23: when the client of a volume with no replica (no sandbox has mounted
\* it yet) could not be opened, the file API request is answered with 503.
C23_FreshVolumeUnavailable ==
    (fsOut.op = "open" /\ ~fsOut.ok /\ replica = NoReplica)
        => FileAPIStatus(TRUE, fsOut) = StatusServiceUnavailable

(***************************************************************************)
(* The mount agent inside one VM.  Mount runs when the VM learns its       *)
(* volume; POST /shutdown builds a fresh Mounter and calls Unmount on it.  *)
(* Nothing serialises the calls: the package variable currentMounter has   *)
(* no lock, so the steps of concurrent calls interleave.                   *)
(***************************************************************************)
\* the invocations of Mount, each on the Mounter NewMounter gave it
MountCalls == {"m1", "m2"}
\* the invocations of Unmount, each on the Mounter PostShutdown built
UnmountCalls == {"u1", "u2"}
NoMounter == "nil"
NoDB == [exists |-> FALSE, journal |-> "none", origin |-> "none"]

\* the stages of Mount in program order; a call's pc is the stage it runs next
MountOrder_DaemonBeforeJournal ==
    <<"prepare", "restore", "format", "litestream", "journal", "mount",
      "verify", "store", "return">>
MountOrder ==
    <<"prepare", "restore", "format", "journal", "litestream", "mount",
      "verify", "store", "return">>
\* the stages of Unmount in program order
UnmountOrder_StopFirst == <<"stop", "umount", "checkpoint">>
UnmountOrder == <<"umount", "checkpoint", "stop">>

\* the stage that follows s, "ok" (return nil) after the last one
After(order, s) ==
    LET i == CHOOSE j \in 1..Len(order) : order[j] = s
    IN  IF i = Len(order) THEN "ok" ELSE order[i + 1]

\* litestream restore -if-replica-exists -o /tmp/meta.db: writes the file
\* when a replica exists, and is a no-op otherwise (or when the file is there)
restoreMetaDB(db, rep) ==
    IF ~db.exists /\ rep
    THEN [exists |-> TRUE, journal |-> "WAL", origin |-> "restored"]
    ELSE db

\* Step 2b: os.Stat(MetaDBPath) says whether juicefs format runs
NeedsFormat_Always(db) == TRUE
NeedsFormat(db) == ~db.exists

\* juicefs format creates meta.db
formatVolume(db) == [exists |-> TRUE, journal |-> "WAL", origin |-> "formatted"]

\* PRAGMA journal_mode=DELETE, skipped when the file does not exist
convertJournalMode(db) ==
    IF db.exists THEN [db EXCEPT !.journal = "DELETE"] ELSE db

\* how the daemon answers SIGTERM: it exits within LitestreamShutdownTimeout,
\* or it does not and Process.Kill succeeds, or Kill reports an error
StopOutcomes == {"graceful", "killed", "kill-error"}

\* stopLitestream on the Mounter of Mount call m: what is left running, the
\* handle, what happened (SIGTERM, then the daemon exited or the 10 s ran out
\* and SIGKILL followed) and whether an error comes back
stopLitestream_LeavesRunning(m, o) ==
    [daemons |-> daemons, cmd |-> litestreamCmd, signals |-> <<>>,
     err |-> FALSE]
stopLitestream(m, o) ==
    IF ~litestreamCmd[m]
    THEN [daemons |-> daemons, cmd |-> litestreamCmd, signals |-> <<>>,
          err |-> FALSE]
    ELSE [daemons |-> daemons \ {m},
          cmd |-> IF o = "kill-error" THEN litestreamCmd
                  ELSE [litestreamCmd EXCEPT ![m] = FALSE],
          signals |-> IF o = "graceful" THEN <<"SIGTERM", "exited">>
                      ELSE <<"SIGTERM", "timeout", "SIGKILL">>,
          err |-> o = "kill-error"]

MountAt(m, stage) == mcall[m].pc = stage
\* the call's record once it has done a stage, and once it has returned an error
MountGoes(m, stage, done) ==
    [mcall[m] EXCEPT !.pc = After(MountOrder, stage),
                     !.steps = mcall[m].steps \o done]
MountFails(m) == [mcall[m] EXCEPT !.pc = "err"]

\* an earlier sandbox used the volume: its replica is in the bucket
EarlierSession ==
    /\ \A m \in MountCalls : mcall[m].pc = "idle"
    /\ ~hasReplica
    /\ hasReplica' = TRUE
    /\ UNCHANGED <<metaDB, fuse, daemons, litestreamCmd, currentMounter,
                   mcall, ucall, sessionLive>>
    /\ UNCHANGED notMount

\* Mount: the two binaries, the mount directory, the GCS token file
Mount_Prepare(m) ==
    /\ mcall[m].pc = "idle"
    /\ \E ok \in BOOLEAN :
           mcall' = [mcall EXCEPT ![m] =
               [(IF ok THEN MountGoes(m, "prepare", <<>>) ELSE MountFails(m))
                    EXCEPT !.during = sessionLive]]
    /\ UNCHANGED <<metaDB, hasReplica, fuse, daemons, litestreamCmd,
                   currentMounter, ucall, sessionLive>>
    /\ UNCHANGED notMount

\* Mount, Step 2: restoreMetaDB
Mount_Restore(m) ==
    /\ MountAt(m, "restore")
    /\ \E ok \in BOOLEAN :
           IF ok
           THEN /\ metaDB' = restoreMetaDB(metaDB, hasReplica)
                /\ mcall' = [mcall EXCEPT ![m] =
                       MountGoes(m, "restore", <<"restore">>)]
           ELSE /\ mcall' = [mcall EXCEPT ![m] = MountFails(m)]
                /\ UNCHANGED metaDB
    /\ UNCHANGED <<hasReplica, fuse, daemons, litestreamCmd, currentMounter,
                   ucall, sessionLive>>
    /\ UNCHANGED notMount

\* Mount, Step 2b: formatVolume when meta.db is not there
Mount_Format(m) ==
    /\ MountAt(m, "format")
    /\ LET stat == IF metaDB.exists THEN metaDB.origin ELSE "absent"
           c == [MountGoes(m, "format", <<>>) EXCEPT
                     !.stat = stat, !.formatRan = NeedsFormat(metaDB)]
       IN  IF NeedsFormat(metaDB)
           THEN \E ok \in BOOLEAN :
                    IF ok
                    THEN /\ metaDB' = formatVolume(metaDB)
                         /\ mcall' = [mcall EXCEPT ![m] =
                                [c EXCEPT !.steps = c.steps \o <<"format">>]]
                    ELSE /\ mcall' = [mcall EXCEPT ![m] =
                                [c EXCEPT !.pc = "err"]]
                         /\ UNCHANGED metaDB
           ELSE /\ mcall' = [mcall EXCEPT ![m] = c]
                /\ UNCHANGED metaDB
    /\ UNCHANGED <<hasReplica, fuse, daemons, litestreamCmd, currentMounter,
                   ucall, sessionLive>>
    /\ UNCHANGED notMount

\* Mount, Step 3: convertJournalMode
Mount_Journal(m) ==
    /\ MountAt(m, "journal")
    /\ \E ok \in BOOLEAN :
           IF ok
           THEN /\ metaDB' = convertJournalMode(metaDB)
                /\ mcall' = [mcall EXCEPT ![m] =
                       MountGoes(m, "journal",
                                 IF metaDB.exists THEN <<"journal">> ELSE <<>>)]
           ELSE /\ metaDB.exists
                /\ mcall' = [mcall EXCEPT ![m] = MountFails(m)]
                /\ UNCHANGED metaDB
    /\ UNCHANGED <<hasReplica, fuse, daemons, litestreamCmd, currentMounter,
                   ucall, sessionLive>>
    /\ UNCHANGED notMount

\* Mount, Step 4: startLitestream
Mount_Litestream(m) ==
    /\ MountAt(m, "litestream")
    /\ \E ok \in BOOLEAN :
           IF ok
           THEN /\ daemons' = daemons \cup {m}
                /\ litestreamCmd' = [litestreamCmd EXCEPT ![m] = TRUE]
                /\ mcall' = [mcall EXCEPT ![m] =
                       MountGoes(m, "litestream", <<"litestream">>)]
           ELSE /\ mcall' = [mcall EXCEPT ![m] = MountFails(m)]
                /\ UNCHANGED <<daemons, litestreamCmd>>
    /\ UNCHANGED <<metaDB, hasReplica, fuse, currentMounter, ucall,
                   sessionLive>>
    /\ UNCHANGED notMount

\* Mount, Step 5: mountJuiceFS, with stopLitestream when it fails
Mount_JuiceFS(m) ==
    /\ MountAt(m, "mount")
    /\ \E ok \in BOOLEAN, o \in StopOutcomes :
           IF ok
           THEN /\ o = "graceful"
                /\ fuse' = fuse \cup {m}
                /\ mcall' = [mcall EXCEPT ![m] =
                       MountGoes(m, "mount", <<"mount">>)]
                /\ UNCHANGED <<daemons, litestreamCmd>>
           ELSE /\ daemons' = stopLitestream(m, o).daemons
                /\ litestreamCmd' = stopLitestream(m, o).cmd
                /\ mcall' = [mcall EXCEPT ![m] = MountFails(m)]
                /\ UNCHANGED fuse
    /\ UNCHANGED <<metaDB, hasReplica, currentMounter, ucall, sessionLive>>
    /\ UNCHANGED notMount

\* Mount: verifyMount, with stopLitestream when it fails
Mount_Verify(m) ==
    /\ MountAt(m, "verify")
    /\ \E ok \in BOOLEAN, o \in StopOutcomes :
           IF ok
           THEN /\ o = "graceful"
                /\ mcall' = [mcall EXCEPT ![m] =
                       MountGoes(m, "verify", <<"verify">>)]
                /\ UNCHANGED <<daemons, litestreamCmd>>
           ELSE /\ daemons' = stopLitestream(m, o).daemons
                /\ litestreamCmd' = stopLitestream(m, o).cmd
                /\ mcall' = [mcall EXCEPT ![m] = MountFails(m)]
    /\ UNCHANGED <<metaDB, hasReplica, fuse, currentMounter, ucall,
                   sessionLive>>
    /\ UNCHANGED notMount

\* Mount: currentMounter = m
Mount_Store(m) ==
    /\ MountAt(m, "store")
    /\ currentMounter' = m
    /\ mcall' = [mcall EXCEPT ![m] = MountGoes(m, "store", <<>>)]
    /\ UNCHANGED <<metaDB, hasReplica, fuse, daemons, litestreamCmd, ucall,
                   sessionLive>>
    /\ UNCHANGED notMount

\* Mount: return nil
Mount_Return(m) ==
    /\ MountAt(m, "return")
    /\ mcall' = [mcall EXCEPT ![m] = MountGoes(m, "return", <<>>)]
    /\ sessionLive' = TRUE
    /\ UNCHANGED <<metaDB, hasReplica, fuse, daemons, litestreamCmd,
                   currentMounter, ucall>>
    /\ UNCHANGED notMount

UnmountAt(u, stage) ==
    IF stage = UnmountOrder[1] THEN ucall[u].pc = "idle"
    ELSE ucall[u].pc = stage
\* the sessions whose Mount had returned nil when this Unmount was called
UnmountCalled(u) ==
    IF ucall[u].pc = "idle"
    THEN [ucall[u] EXCEPT !.after = {m \in MountCalls : mcall[m].pc = "ok"}]
    ELSE ucall[u]
\* the call's record once it has done a stage, and once it has returned an error
UnmountGoes(u, stage, done) ==
    [UnmountCalled(u) EXCEPT !.pc = After(UnmountOrder, stage),
                             !.steps = ucall[u].steps \o done]
UnmountFails(u, done) ==
    [UnmountCalled(u) EXCEPT !.pc = "err", !.steps = ucall[u].steps \o done]
\* Unmount returning nil ends the session
Returned(u) ==
    sessionLive' = IF ucall'[u].pc = "ok" THEN FALSE ELSE sessionLive

\* Unmount: juicefs umount mount_path
Unmount_Umount(u) ==
    /\ UnmountAt(u, "umount")
    /\ \E ok \in BOOLEAN :
           IF ok
           THEN /\ fuse # {}
                /\ \E m \in fuse : fuse' = fuse \ {m}
                /\ ucall' = [ucall EXCEPT ![u] =
                                 UnmountGoes(u, "umount", <<"umount">>)]
           ELSE /\ ucall' = [ucall EXCEPT ![u] = UnmountFails(u, <<>>)]
                /\ UNCHANGED fuse
    /\ Returned(u)
    /\ UNCHANGED <<metaDB, hasReplica, daemons, litestreamCmd,
                   currentMounter, mcall>>
    /\ UNCHANGED notMount

\* Unmount: checkpointWAL, whose failure is only a warning
Unmount_Checkpoint(u) ==
    /\ UnmountAt(u, "checkpoint")
    /\ ucall' = [ucall EXCEPT ![u] =
                     UnmountGoes(u, "checkpoint", <<"checkpoint">>)]
    /\ Returned(u)
    /\ UNCHANGED <<metaDB, hasReplica, fuse, daemons, litestreamCmd,
                   currentMounter, mcall>>
    /\ UNCHANGED notMount

\* Unmount: if currentMounter != nil, the call goes on to stop the daemon of
\* the Mounter it has read; the variable has no lock
Unmount_Stop(u) ==
    /\ UnmountAt(u, "stop")
    /\ IF currentMounter = NoMounter
       THEN ucall' = [ucall EXCEPT ![u] = UnmountGoes(u, "stop", <<>>)]
       ELSE ucall' = [ucall EXCEPT ![u] =
                         [UnmountCalled(u) EXCEPT !.pc = "stopping",
                                                  !.target = currentMounter]]
    /\ Returned(u)
    /\ UNCHANGED <<metaDB, hasReplica, fuse, daemons, litestreamCmd,
                   currentMounter, mcall>>
    /\ UNCHANGED notMount

\* Unmount: stopLitestream on the Mounter read, then currentMounter = nil
Unmount_StopLitestream(u) ==
    /\ ucall[u].pc = "stopping"
    /\ \E o \in StopOutcomes :
           LET s == stopLitestream(ucall[u].target, o) IN
           /\ litestreamCmd[ucall[u].target] \/ o = "graceful"
           /\ daemons' = s.daemons
           /\ litestreamCmd' = s.cmd
           /\ IF s.err
              THEN /\ ucall' = [ucall EXCEPT ![u] = UnmountFails(u, s.signals)]
                   /\ UNCHANGED currentMounter
              ELSE /\ ucall' = [ucall EXCEPT ![u] =
                                    UnmountGoes(u, "stop", s.signals)]
                   /\ currentMounter' = NoMounter
    /\ Returned(u)
    /\ UNCHANGED <<metaDB, hasReplica, fuse, mcall>>
    /\ UNCHANGED notMount

InitMount ==
    /\ metaDB = NoDB
    /\ hasReplica = FALSE
    /\ fuse = {}
    /\ daemons = {}
    /\ litestreamCmd = [m \in MountCalls |-> FALSE]
    /\ currentMounter = NoMounter
    /\ mcall = [m \in MountCalls |->
                  [pc |-> "idle", steps |-> <<>>, stat |-> "none",
                   formatRan |-> FALSE, during |-> FALSE]]
    /\ ucall = [u \in UnmountCalls |->
                   [pc |-> "idle", steps |-> <<>>, after |-> {},
                    target |-> NoMounter]]
    /\ sessionLive = FALSE

NextMount ==
    \/ EarlierSession
    \/ \E m \in MountCalls :
           \/ Mount_Prepare(m)
           \/ Mount_Restore(m)
           \/ Mount_Format(m)
           \/ Mount_Journal(m)
           \/ Mount_Litestream(m)
           \/ Mount_JuiceFS(m)
           \/ Mount_Verify(m)
           \/ Mount_Store(m)
           \/ Mount_Return(m)
    \/ \E u \in UnmountCalls :
           \/ Unmount_Umount(u)
           \/ Unmount_Checkpoint(u)
           \/ Unmount_Stop(u)
           \/ Unmount_StopLitestream(u)

(***************************************************************************)
(* Claims about the mount agent.                                           *)
(***************************************************************************)
\* the steps a call has done, as a set
Done(c) == {c.steps[i] : i \in 1..Len(c.steps)}
IsPrefix(s, t) == Len(s) <= Len(t) /\ \A i \in 1..Len(s) : s[i] = t[i]
\* the steps without the optional format
Unformatted(s) == SelectSeq(s, LAMBDA x : x # "format")

\* C12: when Mount has returned an error, the Litestream daemon it had
\* spawned is no longer running.
C12_FailedMountStoppedDaemon ==
    \A m \in MountCalls : mcall[m].pc = "err" => m \notin daemons
\* a Mount that spawned its daemon and then returned an error
C12_Witness ==
    \E m \in MountCalls :
        mcall[m].pc = "err" /\ "litestream" \in Done(mcall[m])

\* C13: when Mount has returned an error, the FUSE mount it made is not on
\* mount_path.
C13_FailedMountLeftNoFuse ==
    \A m \in MountCalls : mcall[m].pc = "err" => m \notin fuse

\* C14: while the daemon of a session whose Mount returned nil is running, a
\* Mount that was called during a live session has neither a daemon nor a
\* FUSE mount of its own, and currentMounter still leads to the first.
C14_AtMostOneSession ==
    \A a, b \in MountCalls :
        a # b /\ mcall[a].pc = "ok" /\ a \in daemons /\ mcall[b].during
            => b \notin daemons /\ b \notin fuse /\ currentMounter = a

\* C15: whenever no Mount is between its assignment and its return,
\* currentMounter is non-nil exactly if a Mount has returned nil and no
\* Unmount has returned nil since.
C15_CurrentMounterIffLive ==
    (\A m \in MountCalls : mcall[m].pc # "return")
        => (currentMounter # NoMounter <=> sessionLive)

\* C16: when an Unmount has returned nil, no daemon of a Mount that had
\* returned nil before that Unmount was called is still running.
C16_UnmountStoppedDaemon ==
    \A u \in UnmountCalls :
        ucall[u].pc = "ok" => ucall[u].after \cap daemons = {}

\* C34: the calls exclude one another on currentMounter: between an
\* Unmount's reading the reference and its clearing it no other Unmount is
\* between the two as well, and the variable still holds what was read, so
\* no call stops the daemon of a reference another call has cleared or
\* replaced.
C34_CurrentMounterExclusive ==
    \A u \in UnmountCalls :
        ucall[u].pc = "stopping" =>
            /\ currentMounter = ucall[u].target
            /\ \A w \in UnmountCalls : ucall[w].pc = "stopping" => w = u

\* C40: a failed Unmount leaves a teardown that a repeated Unmount can
\* finish.  Unmount reaches the daemon and the reference only past a
\* successful `juicefs umount`, so once an Unmount has returned an error and
\* no call is running, a mount that is gone has left neither a daemon that
\* Unmount still has to stop nor a reference it still has to clear.
C40_FailedUnmountCanBeRepeated ==
    (/\ \E u \in UnmountCalls : ucall[u].pc = "err"
     /\ \A u \in UnmountCalls : ucall[u].pc \in {"idle", "ok", "err"}
     /\ \A m \in MountCalls : mcall[m].pc \in {"idle", "ok", "err"}
     /\ fuse = {})
        => (daemons = {} /\ currentMounter = NoMounter)

\* C17: what an Unmount has done is always a prefix of umount, checkpoint,
\* SIGTERM and then either the daemon's exit or the timeout and SIGKILL.
C17_UnmountOrder ==
    \A u \in UnmountCalls :
        \/ IsPrefix(ucall[u].steps,
                    <<"umount", "checkpoint", "SIGTERM", "exited">>)
        \/ IsPrefix(ucall[u].steps,
                    <<"umount", "checkpoint", "SIGTERM", "timeout", "SIGKILL">>)
\* an Unmount that had to kill the daemon
C17_Witness ==
    \E u \in UnmountCalls :
        ucall[u].steps =
            <<"umount", "checkpoint", "SIGTERM", "timeout", "SIGKILL">>

\* C18: what a Mount has done is always a prefix of restore, journal
\* conversion, daemon start, mount, verify (with the optional format after
\* restore), a Mount that returned nil has done all of them, and a daemon
\* runs only on a meta.db in DELETE mode.
C18_MountOrder ==
    \A m \in MountCalls :
        /\ IsPrefix(Unformatted(mcall[m].steps),
                    <<"restore", "journal", "litestream", "mount", "verify">>)
        /\ mcall[m].pc = "ok" =>
               Unformatted(mcall[m].steps) =
                   <<"restore", "journal", "litestream", "mount", "verify">>
        /\ m \in daemons => metaDB.journal = "DELETE"
\* a Mount that returned nil
C18_Witness ==
    \E m \in MountCalls : mcall[m].pc = "ok" /\ m \in daemons /\ m \in fuse

\* C19: a Mount that has passed Step 2b ran juicefs format exactly if
\* meta.db was absent after the restore; it did not if the file had been
\* restored from the replica.
C19_FormatIffAbsent ==
    \A m \in MountCalls :
        mcall[m].stat # "none" =>
            (mcall[m].formatRan <=> mcall[m].stat = "absent")
\* a Mount of a volume with a replica that returned nil
C19_Witness ==
    \E m \in MountCalls :
        mcall[m].stat = "restored" /\ mcall[m].pc = "ok"

(***************************************************************************)
(* The lock of one JuiceFS client.  Each file API request makes one call   *)
(* on the client the pool gave it; ListDir and Download take mu.RLock,     *)
(* Upload and Delete take mu.Lock, all release it when they return.  The   *)
(* reader Download returns is read by the handler after that.              *)
(***************************************************************************)
\* the file API requests that use the client at the same time
Ops == {"o1", "o2", "o3"}
ReadCalls == {"ListDir", "Download"}
WriteCalls == {"Upload", "Delete"}
NoOp == "none"
IdleOp == [kind |-> NoOp, pc |-> "idle"]

\* sync.RWMutex: RLock waits for the writer, Lock for the writer and the readers
CanRLock == mu.writer = NoOp
CanLock == mu.writer = NoOp /\ mu.readers = {}

\* ListDir and Download: c.mu.RLock()
Client_RLock(o) ==
    /\ call[o] = IdleOp
    /\ CanRLock
    /\ \E k \in ReadCalls :
           call' = [call EXCEPT ![o] = [kind |-> k, pc |-> "rlocked"]]
    /\ mu' = [mu EXCEPT !.readers = mu.readers \cup {o}]
    /\ UNCHANGED notMu

\* ListDir: Open, ReaddirPlus, sort and paginate, then the deferred RUnlock
ListDir_Returns(o) ==
    /\ call[o] = [kind |-> "ListDir", pc |-> "rlocked"]
    /\ call' = [call EXCEPT ![o].pc = "done"]
    /\ mu' = [mu EXCEPT !.readers = mu.readers \ {o}]
    /\ UNCHANGED notMu

\* Download: Open and Stat, then the deferred RUnlock; it returns the
\* jfsReader on success and an error otherwise
Download_Returns(o) ==
    /\ call[o] = [kind |-> "Download", pc |-> "rlocked"]
    /\ \E ok \in BOOLEAN :
           call' = [call EXCEPT ![o].pc = IF ok THEN "streaming" ELSE "done"]
    /\ mu' = [mu EXCEPT !.readers = mu.readers \ {o}]
    /\ UNCHANGED notMu

\* the handler's io.Copy: jfsReader.Read does Pread on the open file until EOF
jfsReader_Read(o) ==
    /\ call[o] = [kind |-> "Download", pc |-> "streaming"]
    /\ call' = [call EXCEPT ![o].pc = "eof"]
    /\ UNCHANGED mu
    /\ UNCHANGED notMu

\* the handler's deferred reader.Close()
jfsReader_Close(o) ==
    /\ call[o] = [kind |-> "Download", pc |-> "eof"]
    /\ call' = [call EXCEPT ![o].pc = "done"]
    /\ UNCHANGED mu
    /\ UNCHANGED notMu

\* Upload and Delete: c.mu.Lock()
Client_Lock(o) ==
    /\ call[o] = IdleOp
    /\ CanLock
    /\ \E k \in WriteCalls :
           call' = [call EXCEPT ![o] = [kind |-> k, pc |-> "locked"]]
    /\ mu' = [mu EXCEPT !.writer = o]
    /\ UNCHANGED notMu

\* Upload: MkdirAll, Create or Truncate, Pwrite, Flush; an error returns
\* through the deferred Unlock
Upload_Writes(o) ==
    /\ call[o] = [kind |-> "Upload", pc |-> "locked"]
    /\ \E ok \in BOOLEAN :
           IF ok
           THEN /\ call' = [call EXCEPT ![o].pc = "mutated"]
                /\ UNCHANGED mu
           ELSE /\ call' = [call EXCEPT ![o].pc = "done"]
                /\ mu' = [mu EXCEPT !.writer = NoOp]
    /\ UNCHANGED notMu

\* Delete: Rmr or Delete; an error or ENOENT returns through the deferred
\* Unlock
Delete_Removes(o) ==
    /\ call[o] = [kind |-> "Delete", pc |-> "locked"]
    /\ \E ok \in BOOLEAN :
           IF ok
           THEN /\ call' = [call EXCEPT ![o].pc = "mutated"]
                /\ UNCHANGED mu
           ELSE /\ call' = [call EXCEPT ![o].pc = "done"]
                /\ mu' = [mu EXCEPT !.writer = NoOp]
    /\ UNCHANGED notMu

\* Upload and Delete: c.syncToGCSLocked(), whose error is only logged
syncToGCSLocked(o) ==
    /\ call[o].kind \in WriteCalls
    /\ call[o].pc = "mutated"
    /\ call' = [call EXCEPT ![o].pc = "synced"]
    /\ UNCHANGED mu
    /\ UNCHANGED notMu

\* Upload and Delete: return, and the deferred c.mu.Unlock()
Client_Unlock(o) ==
    /\ call[o].kind \in WriteCalls
    /\ call[o].pc = "synced"
    /\ call' = [call EXCEPT ![o].pc = "done"]
    /\ mu' = [mu EXCEPT !.writer = NoOp]
    /\ UNCHANGED notMu

InitMu ==
    /\ mu = [readers |-> {}, writer |-> NoOp]
    /\ call = [o \in Ops |-> IdleOp]

NextMu ==
    \E o \in Ops :
        \/ Client_RLock(o)
        \/ ListDir_Returns(o)
        \/ Download_Returns(o)
        \/ jfsReader_Read(o)
        \/ jfsReader_Close(o)
        \/ Client_Lock(o)
        \/ Upload_Writes(o)
        \/ Delete_Removes(o)
        \/ syncToGCSLocked(o)
        \/ Client_Unlock(o)

(***************************************************************************)
(* Claims about the client's lock.                                         *)
(***************************************************************************)
\* a read call that is reading the filesystem: inside ListDir or Download, or
\* reading the stream Download returned
Reading(o) ==
    call[o].kind \in ReadCalls /\ call[o].pc \in {"rlocked", "streaming"}
\* a write call between its first change and the end of its sync-back
Writing(o) ==
    call[o].kind \in WriteCalls /\ call[o].pc \in {"locked", "mutated", "synced"}

\* C20: no read is in progress during a write, no two writes are in
\* progress together, and a write that has changed the filesystem holds
\* the lock until its sync-back is over.
C20_ReadsSharedWritesExclusive ==
    \A a, b \in Ops :
        a # b =>
            /\ ~(Reading(a) /\ Writing(b))
            /\ ~(Writing(a) /\ Writing(b))
            /\ call[a].pc \in {"mutated", "synced"} => mu.writer = a

(***************************************************************************)
(* The pool of JuiceFS clients in the API.  Get and cleanup hold Pool.mu   *)
(* from their first statement to their return, so each is one step.        *)
(***************************************************************************)
\* number of clients NewClient builds in one behaviour
MaxClients == 2
\* minutes the clock of the API process runs
MaxPoolTime == 6
\* Pool.idleTimeout, in minutes
idleTimeout == 5
PoolVolumes == {"v1", "v2"}
\* the request handlers that call Get
Callers == {"g1", "g2"}
\* no entry under the key
NoPooled == [client |-> 0, lastUsed |-> 0]
NoneGot == [vol |-> "none", client |-> 0]

\* pc, ok := p.clients[volumeID]
Lookup_Miss(v) == NoPooled
Lookup(v) == clients[v]

\* the clients that are not closed, per volume
OpenClients(v) ==
    {i \in 1..Len(opened) : opened[i].vol = v /\ ~opened[i].closed}

\* Client.Close on each of the clients in ids
CloseAll(ids) ==
    [i \in 1..Len(opened) |->
        IF i \in ids THEN [opened[i] EXCEPT !.closed = TRUE] ELSE opened[i]]

\* Pool.Get: the cached client with lastUsed refreshed, or a new client from
\* NewClient, or NewClient's error
Pool_Get(g, v) ==
    /\ opOut[g] \notin {"pending", "streaming"}
    /\ IF Lookup(v) # NoPooled
       THEN /\ clients' = [clients EXCEPT ![v].lastUsed = poolNow]
            /\ got' = [got EXCEPT ![g] = [vol |-> v, client |-> Lookup(v).client]]
            /\ UNCHANGED opened
       ELSE \E ok \in BOOLEAN :
                IF ok
                THEN /\ Len(opened) < MaxClients
                     /\ opened' = Append(opened, [vol |-> v, closed |-> FALSE])
                     /\ clients' = [clients EXCEPT ![v] =
                            [client |-> Len(opened) + 1, lastUsed |-> poolNow]]
                     /\ got' = [got EXCEPT ![g] =
                            [vol |-> v, client |-> Len(opened) + 1]]
                ELSE /\ got' = [got EXCEPT ![g] = NoneGot]
                     /\ UNCHANGED <<clients, opened>>
    /\ opOut' = [opOut EXCEPT ![g] = IF got'[g] = NoneGot THEN "none" ELSE "pending"]
    /\ UNCHANGED poolNow
    /\ UNCHANGED notPool

\* the handler's call on the client Get gave it (client.Download, Upload,
\* ListDir, Delete): under Client.mu it first reads c.closed; Download
\* returns a reader and releases Client.mu, the others are over on return
Client_Operation(g) ==
    /\ opOut[g] = "pending"
    /\ IF opened[got[g].client].closed
       THEN opOut' = [opOut EXCEPT ![g] = "client closed"]
       ELSE \E out \in {"none", "streaming"} : opOut' = [opOut EXCEPT ![g] = out]
    /\ UNCHANGED <<clients, opened, poolNow, got>>
    /\ UNCHANGED notPool

\* io.Copy(c.Writer, reader): jfsReader.Read on the file of the client; once
\* Close has shut the metadata engine down and removed the client's
\* directory the read may still be served or may fail
Reader_Read(g) ==
    /\ opOut[g] = "streaming"
    /\ \E out \in {"none", "read failed"} :
         /\ out = "read failed" => opened[got[g].client].closed
         /\ opOut' = [opOut EXCEPT ![g] = out]
    /\ UNCHANGED <<clients, opened, poolNow, got>>
    /\ UNCHANGED notPool

\* the entries cleanup closes and deletes
Idle == {v \in PoolVolumes :
            clients[v] # NoPooled /\ poolNow - clients[v].lastUsed > idleTimeout}

\* Pool.cleanup, run by cleanupLoop on every tick
Pool_cleanup ==
    /\ opened' = CloseAll({clients[v].client : v \in Idle})
    /\ clients' = [v \in PoolVolumes |->
                      IF v \in Idle THEN NoPooled ELSE clients[v]]
    /\ UNCHANGED <<poolNow, got, opOut>>
    /\ UNCHANGED notPool

\* Pool.Close
Pool_Close ==
    /\ opened' = CloseAll({clients[v].client : v \in PoolVolumes} \ {0})
    /\ clients' = [v \in PoolVolumes |-> NoPooled]
    /\ UNCHANGED <<poolNow, got, opOut>>
    /\ UNCHANGED notPool

\* a minute passes
PoolTick ==
    /\ poolNow < MaxPoolTime
    /\ poolNow' = poolNow + 1
    /\ UNCHANGED <<clients, opened, got, opOut>>
    /\ UNCHANGED notPool

InitPool ==
    /\ clients = [v \in PoolVolumes |-> NoPooled]
    /\ opened = <<>>
    /\ poolNow = 0
    /\ got = [g \in Callers |-> NoneGot]
    /\ opOut = [g \in Callers |-> "none"]

NextPool ==
    \/ \E g \in Callers, v \in PoolVolumes : Pool_Get(g, v)
    \/ \E g \in Callers : Client_Operation(g)
    \/ \E g \in Callers : Reader_Read(g)
    \/ Pool_cleanup
    \/ Pool_Close
    \/ PoolTick

(***************************************************************************)
(* Claims about the pool.                                                  *)
(***************************************************************************)
\* C21: no volume ever has two clients that are not closed, and two callers
\* that hold open clients of one volume hold the same client.
C21_OneOpenClientPerVolume ==
    /\ \A v \in PoolVolumes : Cardinality(OpenClients(v)) <= 1
    /\ \A g, h \in Callers :
           /\ got[g].vol = got[h].vol
           /\ got[g].client \in OpenClients(got[g].vol)
           /\ got[h].client \in OpenClients(got[h].vol)
           => got[g].client = got[h].client
\* two callers share the open client of a volume whose earlier client has
\* been closed and replaced
C21_Witness ==
    \E g, h \in Callers, i \in 1..Len(opened) :
        /\ g # h
        /\ got[g].client = got[h].client
        /\ got[g].client \in OpenClients(got[g].vol)
        /\ opened[i].vol = got[g].vol
        /\ opened[i].closed
        /\ clients[got[g].vol] # NoPooled

\* C33: the idle sweep closes no client that a caller got from Get and has
\* not finished with: not while the caller's operation is still to start,
\* and not while the caller reads the stream Download returned.
C33_SweepSparesClientsInUse ==
    [][Pool_cleanup =>
          \A g \in Callers :
              opOut[g] \in {"pending", "streaming"}
                  => opened'[got[g].client].closed = opened[got[g].client].closed]_vars

(***************************************************************************)
(* The object-store layout of a volume across its creation and deletion.   *)
(* The deployment has a bucket configured.                                 *)
(***************************************************************************)
BucketVolumes == {"v1", "v2"}
NoLayout == {}
BothMarkers == {"data/.keep", "meta/.keep"}
NoAnswer == [op |-> "none", code |-> 0, destroyErr |-> FALSE, dbErr |-> FALSE]
Answer(op, code, destroyErr, dbErr) ==
    [op |-> op, code |-> code, destroyErr |-> destroyErr, dbErr |-> dbErr]

\* FormatVolume: the two marker objects are written in turn; an error on the
\* second leaves the first
FormatOutcomes == {"ok", "no-client", "first-fails", "second-fails"}
FormatVolume(objs, o) ==
    IF o = "ok" THEN objs \cup BothMarkers
    ELSE IF o = "second-fails" THEN objs \cup {"data/.keep"}
    ELSE objs

\* DestroyVolume: without a storage client nothing is deleted and the error
\* is returned; otherwise every object under both prefixes is deleted except
\* those whose deletion fails, which is only logged
DestroyOutcomes == [client : BOOLEAN, kept : SUBSET BothMarkers]
DestroyVolume(objs, o) == IF o.client THEN objs \cap o.kept ELSE objs
DestroyVolume_Err(objs, o) == ~o.client
\* whether DeleteVolumesIdOrName returns when the layout was not destroyed
DestroyAborts_OnError(objs, o) == DestroyVolume(objs, o) # NoLayout
DestroyAborts(objs, o) == FALSE

\* PostVolumes: CreateVolume.  One build inserts the row as 'creating' and
\* goes on to format; the other inserts it as 'available' and answers 201
PostVolumes_CreateVolume(v) ==
    /\ task[v] = "new"
    /\ IF build = "acl"
       THEN /\ volStatus' = [volStatus EXCEPT ![v] = "creating"]
            /\ task' = [task EXCEPT ![v] = "format"]
            /\ UNCHANGED answer
       ELSE /\ volStatus' = [volStatus EXCEPT ![v] = "available"]
            /\ task' = [task EXCEPT ![v] = "idle"]
            /\ answer' = [answer EXCEPT ![v] = Answer("create", 201, FALSE, FALSE)]
    /\ UNCHANGED objects
    /\ UNCHANGED notBucket

\* PostVolumes: FormatVolume, and on its error the row becomes 'deleting'
\* and the answer is 500
PostVolumes_FormatVolume(v) ==
    /\ task[v] = "format"
    /\ \E o \in FormatOutcomes :
         /\ objects' = [objects EXCEPT ![v] = FormatVolume(@, o)]
         /\ IF o = "ok"
            THEN /\ task' = [task EXCEPT ![v] = "activate"]
                 /\ UNCHANGED <<volStatus, answer>>
            ELSE /\ volStatus' = [volStatus EXCEPT ![v] = "deleting"]
                 /\ task' = [task EXCEPT ![v] = "idle"]
                 /\ answer' = [answer EXCEPT
                                  ![v] = Answer("create", 500, FALSE, FALSE)]
    /\ UNCHANGED notBucket

\* PostVolumes: UpdateVolumeStatus to 'available' and the 201, or its error
PostVolumes_Available(v) ==
    /\ task[v] = "activate"
    /\ \/ /\ volStatus' = [volStatus EXCEPT ![v] = "available"]
          /\ answer' = [answer EXCEPT ![v] = Answer("create", 201, FALSE, FALSE)]
       \/ /\ answer' = [answer EXCEPT ![v] = Answer("create", 500, FALSE, TRUE)]
          /\ UNCHANGED volStatus
    /\ task' = [task EXCEPT ![v] = "idle"]
    /\ UNCHANGED objects
    /\ UNCHANGED notBucket

\* DeleteVolumesIdOrName on an existing volume: UpdateVolumeStatus to
\* 'deleting', or its error
DeleteVolumes_Deleting(v) ==
    /\ task[v] = "idle"
    /\ volStatus[v] # "absent"
    /\ \/ /\ volStatus' = [volStatus EXCEPT ![v] = "deleting"]
          /\ task' = [task EXCEPT ![v] = "destroy"]
          /\ UNCHANGED answer
       \/ /\ answer' = [answer EXCEPT ![v] = Answer("delete", 500, FALSE, TRUE)]
          /\ UNCHANGED <<volStatus, task>>
    /\ UNCHANGED objects
    /\ UNCHANGED notBucket

\* DeleteVolumesIdOrName: DestroyVolume, then DeleteVolume and the 204, or
\* the 500 of a failed DeleteVolume
DeleteVolumes_DestroyVolume(v) ==
    /\ task[v] = "destroy"
    /\ \E o \in DestroyOutcomes :
         LET left == DestroyVolume(objects[v], o)
             unclean == DestroyVolume_Err(objects[v], o) \/ left # NoLayout
         IN /\ objects' = [objects EXCEPT ![v] = left]
            /\ IF DestroyAborts(objects[v], o)
               THEN /\ answer' = [answer EXCEPT
                                     ![v] = Answer("delete", 500, unclean, FALSE)]
                    /\ task' = [task EXCEPT ![v] = "idle"]
                    /\ UNCHANGED volStatus
               ELSE \/ /\ volStatus' = [volStatus EXCEPT ![v] = "absent"]
                       /\ task' = [task EXCEPT ![v] = "done"]
                       /\ answer' = [answer EXCEPT
                                        ![v] = Answer("delete", 204, unclean, FALSE)]
                    \/ /\ answer' = [answer EXCEPT
                                        ![v] = Answer("delete", 500, unclean, TRUE)]
                       /\ task' = [task EXCEPT ![v] = "idle"]
                       /\ UNCHANGED volStatus
    /\ UNCHANGED notBucket

InitBucket ==
    /\ volStatus = [v \in BucketVolumes |-> "absent"]
    /\ objects = [v \in BucketVolumes |-> NoLayout]
    /\ task = [v \in BucketVolumes |-> "new"]
    /\ answer = [v \in BucketVolumes |-> NoAnswer]

NextBucket ==
    \E v \in BucketVolumes :
        \/ PostVolumes_CreateVolume(v)
        \/ PostVolumes_FormatVolume(v)
        \/ PostVolumes_Available(v)
        \/ DeleteVolumes_Deleting(v)
        \/ DeleteVolumes_DestroyVolume(v)

\* C24: every volume whose status is 'available', and every Create that
\* was answered 201, has both markers {vol}/.keep and {vol}-meta/.keep in
\* the bucket.
C24_AvailableHasMarkers ==
    \A v \in BucketVolumes :
        /\ volStatus[v] = "available" => BothMarkers \subseteq objects[v]
        /\ (answer[v].op = "create" /\ answer[v].code = 201)
               => BothMarkers \subseteq objects[v]

\* C25: a delete of an existing volume whose layout could not be destroyed
\* is answered as it would be otherwise: 204 with the row removed, and a
\* 500 only when the database failed.
C25_DestroyIsBestEffort ==
    \A v \in BucketVolumes :
        (answer[v].op = "delete" /\ answer[v].destroyErr)
            => IF answer[v].dbErr
               THEN answer[v].code = 500
               ELSE answer[v].code = 204 /\ volStatus[v] = "absent"

C25_Witness ==
    \E v \in BucketVolumes :
        /\ answer[v].op = "delete"
        /\ answer[v].destroyErr
        /\ answer[v].code = 204
        /\ volStatus[v] = "absent"
        /\ objects[v] # NoLayout

(***************************************************************************)
(* Listing a directory page by page: GET /volumes/{id}/files with limit    *)
(* and nextToken over Client.ListDir.  Names and tokens are strings of     *)
(* bytes; a token is the base64 text of "offset:N".                        *)
(***************************************************************************)
\* most entries of the directory listed
MaxEntries == 11
defaultFileListLimit == 100
maxFileListLimit == 1000
\* entry names: one or two bytes out of "a", "b", "c"
NameBytes == 97..99
EntryNames == {<<a>> : a \in NameBytes} \cup {<<a, b>> : a, b \in NameBytes}
\* the limit parameter of a request: absent or 0, small, or above the maximum
LimitParams == {0, 1, 4, 2000}
NoToken == <<>>

\* string(entries[i].Name) < string(entries[j].Name): bytewise
RECURSIVE NameLess(_, _)
NameLess(x, y) ==
    IF y = <<>> THEN FALSE
    ELSE IF x = <<>> THEN TRUE
    ELSE IF Head(x) # Head(y) THEN Head(x) < Head(y)
    ELSE NameLess(Tail(x), Tail(y))

\* sort.Slice(entries, by name) on the entries ReaddirPlus returned
RECURSIVE SortByName(_)
SortByName(S) ==
    IF S = {} THEN <<>>
    ELSE LET first == CHOOSE x \in S : \A y \in S \ {x} : NameLess(x, y)
         IN <<first>> \o SortByName(S \ {first})

\* ListDir: whether entries remain after the page
HasMore_AtLimit(rest, limit) == limit > 0 /\ rest >= limit
HasMore(rest, limit) == limit > 0 /\ rest > limit

\* Client.ListDir(path, limit, offset) on a directory holding dir
ListDir(dir, limit, offset) ==
    LET sorted == SortByName(dir)
        total == Len(sorted)
    IN IF offset > 0 /\ offset >= total
       THEN [files |-> <<>>, hasMore |-> FALSE]
       ELSE LET rest == SubSeq(sorted, offset + 1, total)
            IN IF HasMore(Len(rest), limit)
               THEN [files |-> SubSeq(rest, 1, limit), hasMore |-> TRUE]
               ELSE [files |-> rest, hasMore |-> FALSE]

\* the handler's limit: the default unless the parameter is positive, capped
Limit(param) ==
    IF param > 0
    THEN IF param > maxFileListLimit THEN maxFileListLimit ELSE param
    ELSE defaultFileListLimit

\* fmt.Sprintf("offset:%d", offset) for offset >= 0, as bytes
RECURSIVE Decimal(_)
Decimal(n) ==
    IF n < 10 THEN <<48 + n>> ELSE Decimal(n \div 10) \o <<48 + (n % 10)>>
OffsetPrefix == <<111, 102, 102, 115, 101, 116, 58>>
Sprintf_offset(n) == OffsetPrefix \o Decimal(n)

\* base64.StdEncoding.EncodeToString: three bytes make four symbols of six
\* bits; 64 stands for the padding '='
Pad == 64
RECURSIVE EncodeToString(_)
EncodeToString(b) ==
    IF Len(b) = 0 THEN <<>>
    ELSE IF Len(b) = 1
         THEN <<b[1] \div 4, (b[1] % 4) * 16, Pad, Pad>>
    ELSE IF Len(b) = 2
         THEN <<b[1] \div 4, (b[1] % 4) * 16 + b[2] \div 16,
                (b[2] % 16) * 4, Pad>>
    ELSE <<b[1] \div 4, (b[1] % 4) * 16 + b[2] \div 16,
           (b[2] % 16) * 4 + b[3] \div 64, b[3] % 64>>
             \o EncodeToString(SubSeq(b, 4, Len(b)))

\* base64.StdEncoding.DecodeString; CorruptInput for a text that is no
\* base64
CorruptInput == <<-1>>
RECURSIVE DecodeString(_)
DecodeString(t) ==
    IF Len(t) = 0 THEN <<>>
    ELSE IF Len(t) < 4 \/ t[1] = Pad \/ t[2] = Pad THEN CorruptInput
    ELSE IF t[3] = Pad
         THEN IF Len(t) = 4 /\ t[4] = Pad
              THEN <<t[1] * 4 + t[2] \div 16>>
              ELSE CorruptInput
    ELSE IF t[4] = Pad
         THEN IF Len(t) = 4
              THEN <<t[1] * 4 + t[2] \div 16, (t[2] % 16) * 16 + t[3] \div 4>>
              ELSE CorruptInput
    ELSE LET tail == DecodeString(SubSeq(t, 5, Len(t)))
         IN IF tail = CorruptInput THEN CorruptInput
            ELSE <<t[1] * 4 + t[2] \div 16, (t[2] % 16) * 16 + t[3] \div 4,
                   (t[3] % 4) * 64 + t[4]>> \o tail

\* the value of the leading decimal digits of s, given the value so far
RECURSIVE ScanDigits(_, _)
ScanDigits(s, acc) ==
    IF s = <<>> \/ Head(s) \notin 48..57 THEN acc
    ELSE ScanDigits(Tail(s), acc * 10 + (Head(s) - 48))

\* fmt.Sscanf(decoded, "offset:%d", &offset); ScanError when the text does
\* not start with "offset:" and a digit
ScanError == -1
Sscanf_offset(s) ==
    IF /\ Len(s) > Len(OffsetPrefix)
       /\ SubSeq(s, 1, Len(OffsetPrefix)) = OffsetPrefix
       /\ s[Len(OffsetPrefix) + 1] \in 48..57
    THEN ScanDigits(SubSeq(s, Len(OffsetPrefix) + 1, Len(s)), 0)
    ELSE ScanError

encodeNextToken(offset) == EncodeToString(Sprintf_offset(offset))

\* decodeNextToken: the offset, or ScanError for its errors
decodeNextToken(token) ==
    LET decoded == DecodeString(token)
    IN IF decoded = CorruptInput THEN ScanError ELSE Sscanf_offset(decoded)

\* a client starts to list a directory: no token yet
ListingStarts ==
    /\ listing = "idle"
    /\ \E dir \in SUBSET EntryNames :
         /\ Cardinality(dir) <= MaxEntries
         /\ entries' = dir
    /\ listed' = <<>>
    /\ nextToken' = NoToken
    /\ pages' = 0
    /\ listing' = "more"
    /\ UNCHANGED notListing

\* GetVolumesVolumeIDFiles: one page, asked for with the token of the page
\* before it
GetVolumesVolumeIDFiles ==
    /\ listing = "more"
    /\ \E param \in LimitParams :
         LET limit == Limit(param)
             offset == IF nextToken # NoToken
                       THEN decodeNextToken(nextToken) ELSE 0
         IN IF offset = ScanError
            THEN \* 400 "Invalid next token"
                 /\ listing' = "failed"
                 /\ UNCHANGED <<listed, nextToken, pages>>
            ELSE LET result == ListDir(entries, limit, offset)
                 IN /\ listed' = listed \o result.files
                    /\ pages' = pages + 1
                    /\ IF result.hasMore
                       THEN /\ nextToken' = encodeNextToken(offset + limit)
                            /\ listing' = "more"
                       ELSE /\ nextToken' = NoToken
                            /\ listing' = "done"
    /\ UNCHANGED entries
    /\ UNCHANGED notListing

InitListing ==
    /\ entries = {}
    /\ listed = <<>>
    /\ nextToken = NoToken
    /\ pages = 0
    /\ listing = "idle"

NextListing == ListingStarts \/ GetVolumesVolumeIDFiles

\* C27: while a directory is listed page by page, the entries received so
\* far are the first entries of the directory in name order, each once; a
\* page comes with a nextToken exactly when entries remain after it; so the
\* listing that ends has every entry exactly once, in name order.
C27_PagesCoverDirectoryInOrder ==
    listing \in {"more", "done"} =>
        /\ IsPrefix(listed, SortByName(entries))
        /\ pages > 0 =>
              (nextToken # NoToken <=> Len(listed) < Cardinality(entries))
        /\ listing = "done" => listed = SortByName(entries)

C27_Witness ==
    /\ listing = "done"
    /\ pages >= 3
    /\ Cardinality(entries) = MaxEntries
    /\ listed = SortByName(entries)

(***************************************************************************)
(* ValidateMountPath, the check on the mount path of a volume attached to  *)
(* a sandbox.  A path is a string of pieces: the separator, the dot, and   *)
(* words that hold neither ("x" is any other word).                        *)
(***************************************************************************)
\* longest mount path, in pieces
MaxPathLen == 5
Pieces == {"/", ".", "workspace", "data", "mnt", "volumes", "x"}
MountPaths == UNION {[1..k -> Pieces] : k \in 0..MaxPathLen}
allowedMountPrefixes ==
    {<<"/", "workspace", "/">>, <<"/", "data", "/">>, <<"/", "mnt", "/">>,
     <<"/", "volumes", "/">>}
NotValidated == "not validated"
Valid == ""

\* strings.HasPrefix(path, prefix)
HasPrefixOf(path, prefix) ==
    Len(path) >= Len(prefix) /\ SubSeq(path, 1, Len(prefix)) = prefix

\* strings.Contains(path, "..")
ContainsDotDot(path) ==
    \E i \in 1..(Len(path) - 1) : path[i] = "." /\ path[i + 1] = "."

\* the buffer of filepath.Clean after a ".." element: the last element and
\* its separator are dropped, never below dotdot
RECURSIVE Backtrack(_, _)
Backtrack(out, dotdot) ==
    IF Len(out) > dotdot /\ out[Len(out)] # "/"
    THEN Backtrack(SubSeq(out, 1, Len(out) - 1), dotdot)
    ELSE IF Len(out) > dotdot THEN SubSeq(out, 1, Len(out) - 1) ELSE out

\* the end of the element that starts at r
RECURSIVE ElementEnd(_, _)
ElementEnd(path, r) ==
    IF r > Len(path) \/ path[r] = "/" THEN r ELSE ElementEnd(path, r + 1)

\* the loop of filepath.Clean from position r with the buffer out
RECURSIVE CleanLoop(_, _, _, _, _)
CleanLoop(path, r, out, rooted, dotdot) ==
    LET n == Len(path)
    IN IF r > n THEN out
       ELSE IF path[r] = "/"
            THEN CleanLoop(path, r + 1, out, rooted, dotdot)
       ELSE IF path[r] = "." /\ (r = n \/ path[r + 1] = "/")
            THEN CleanLoop(path, r + 1, out, rooted, dotdot)
       ELSE IF /\ path[r] = "."
               /\ r + 1 <= n
               /\ path[r + 1] = "."
               /\ (r + 1 = n \/ path[r + 2] = "/")
            THEN IF Len(out) > dotdot
                 THEN CleanLoop(path, r + 2, Backtrack(out, dotdot), rooted,
                                dotdot)
                 ELSE IF ~rooted
                      THEN LET o == (IF out # <<>> THEN out \o <<"/">> ELSE out)
                                        \o <<".", ".">>
                           IN CleanLoop(path, r + 2, o, rooted, Len(o))
                      ELSE CleanLoop(path, r + 2, out, rooted, dotdot)
       ELSE LET e == ElementEnd(path, r)
                sep == IF (rooted /\ Len(out) # 1) \/ (~rooted /\ out # <<>>)
                       THEN <<"/">> ELSE <<>>
            IN CleanLoop(path, e, out \o sep \o SubSeq(path, r, e - 1),
                         rooted, dotdot)

\* filepath.Clean
Clean_Unchanged(path) == path
Clean(path) ==
    IF path = <<>> THEN <<".">>
    ELSE LET rooted == path[1] = "/"
             out == CleanLoop(path, IF rooted THEN 2 ELSE 1,
                              IF rooted THEN <<"/">> ELSE <<>>, rooted,
                              IF rooted THEN 1 ELSE 0)
         IN IF out = <<>> THEN <<".">> ELSE out

\* ValidateMountPath: the error message, Valid for none
ValidateMountPath(path) ==
    IF ~HasPrefixOf(path, <<"/">>) THEN "Mount path must be absolute"
    ELSE IF Clean(path) # path \/ ContainsDotDot(path)
         THEN "Mount path must be canonical (no '..' or '//')"
    ELSE IF ~\E prefix \in allowedMountPrefixes : HasPrefixOf(path, prefix)
         THEN "Mount path must start with /workspace/, /data/, /mnt/, or /volumes/"
    ELSE IF \E prefix \in allowedMountPrefixes :
                HasPrefixOf(path, prefix) /\ Len(path) = Len(prefix)
         THEN "Mount path must include subdirectory after prefix"
    ELSE Valid

\* a sandbox is created with a volume and this mount path
ValidatesMountPath ==
    /\ mountErr = NotValidated
    /\ \E path \in MountPaths :
         /\ mountPath' = path
         /\ mountErr' = ValidateMountPath(path)
    /\ UNCHANGED notPaths

InitPaths == mountPath = <<>> /\ mountErr = NotValidated

NextPaths == ValidatesMountPath

\* whether some component of the path is "."
HasDotComponent(path) ==
    \E i \in 1..Len(path) :
        /\ path[i] = "."
        /\ i = 1 \/ path[i - 1] = "/"
        /\ i = Len(path) \/ path[i + 1] = "/"

\* C28: ValidateMountPath accepts a path exactly when the path is absolute,
\* is canonical (no component of it is "." or "..", ".." occurs nowhere in
\* it, it has no "//" and does not end in "/"), starts with one of the four
\* prefixes and goes on after the prefix.
C28_AcceptsIffSafe ==
    mountErr # NotValidated =>
        (mountErr = Valid <=>
            /\ mountPath # <<>> /\ mountPath[1] = "/"
            /\ ~HasDotComponent(mountPath)
            /\ \A i \in 1..(Len(mountPath) - 1) :
                  /\ ~(mountPath[i] = "." /\ mountPath[i + 1] = ".")
                  /\ ~(mountPath[i] = "/" /\ mountPath[i + 1] = "/")
            /\ mountPath[Len(mountPath)] # "/"
            /\ \E prefix \in allowedMountPrefixes :
                  /\ Len(mountPath) > Len(prefix)
                  /\ \A i \in 1..Len(prefix) : mountPath[i] = prefix[i])

C28_Witness ==
    /\ mountErr = Valid
    /\ Len(mountPath) = MaxPathLen
    /\ \E i \in 1..Len(mountPath) : mountPath[i] = "."

(***************************************************************************)
(* crypto.Encryptor: AES-256-GCM with the nonce prepended.  Bytes, the     *)
(* nonce and the tag are scaled down; the cipher is a keystream added to   *)
(* the plaintext and a tag over key, nonce and ciphertext.                 *)
(***************************************************************************)
\* largest byte value, bytes of a nonce, longest plaintext
MaxByte == 3
NonceSize == 1
MaxPlainLen == 2
keySize == 32
ByteValues == 0..MaxByte
Plaintexts == UNION {[1..k -> ByteValues] : k \in 0..MaxPlainLen}
Nonces == [1..NonceSize -> ByteValues]
\* decoded keys: their length and what their bytes are
Keys == [len : {16, keySize}, seed : ByteValues]
NoEncryptor == [state |-> "none", seed |-> 0]
NoResult == [state |-> "none", data |-> <<>>]
Failed == [state |-> "error", data |-> <<>>]
Result(data) == [state |-> "ok", data |-> data]

RECURSIVE SumBytes(_)
SumBytes(s) == IF s = <<>> THEN 0 ELSE Head(s) + SumBytes(Tail(s))

\* the keystream byte at position i under a key and a nonce
Keystream(seed, nonce, i) == (seed + SumBytes(nonce) + i) % (MaxByte + 1)
\* the authentication tag over the nonce and the ciphertext
Tag(seed, nonce, ct) ==
    <<(seed + 1 + SumBytes(nonce) + SumBytes(ct) + Len(ct)) % (MaxByte + 1)>>

\* gcm.Seal(dst, nonce, plaintext, nil): dst, then ciphertext, then tag
Seal_DropsDst(seed, dst, nonce, pt) ==
    LET ct == [i \in 1..Len(pt) |->
                  (pt[i] + Keystream(seed, nonce, i)) % (MaxByte + 1)]
    IN ct \o Tag(seed, nonce, ct)
Seal(seed, dst, nonce, pt) ==
    LET ct == [i \in 1..Len(pt) |->
                  (pt[i] + Keystream(seed, nonce, i)) % (MaxByte + 1)]
    IN dst \o ct \o Tag(seed, nonce, ct)

\* gcm.Open(nil, nonce, ciphertext, nil): an error unless the tag at the
\* end is the tag of what precedes it
Open(seed, nonce, box) ==
    IF Len(box) < 1 THEN Failed
    ELSE LET ct == SubSeq(box, 1, Len(box) - 1)
             tag == SubSeq(box, Len(box), Len(box))
         IN IF tag # Tag(seed, nonce, ct) THEN Failed
            ELSE Result([i \in 1..Len(ct) |->
                     (ct[i] + (MaxByte + 1) - Keystream(seed, nonce, i))
                         % (MaxByte + 1)])

\* Encryptor.Encrypt with the nonce rand.Reader gave
Encrypt(seed, nonce, plaintext) == Result(Seal(seed, nonce, nonce, plaintext))

\* Encryptor.Decrypt
Decrypt(seed, ciphertext) ==
    IF Len(ciphertext) < NonceSize THEN Failed
    ELSE Open(seed, SubSeq(ciphertext, 1, NonceSize),
              SubSeq(ciphertext, NonceSize + 1, Len(ciphertext)))

\* NewEncryptor: only a key of 32 bytes makes an Encryptor
NewEncryptor ==
    /\ encryptor = NoEncryptor
    /\ \E key \in Keys :
         encryptor' = IF key.len # keySize
                      THEN [state |-> "bad key", seed |-> 0]
                      ELSE [state |-> "ready", seed |-> key.seed]
    /\ UNCHANGED <<plain, sealed, decrypted>>
    /\ UNCHANGED notCrypto

\* a call of Encrypt: the nonce is read from rand.Reader, or that fails
Encryptor_Encrypt ==
    /\ encryptor.state = "ready"
    /\ sealed = NoResult
    /\ \E x \in Plaintexts :
         /\ plain' = x
         /\ \/ \E nonce \in Nonces :
                 sealed' = Encrypt(encryptor.seed, nonce, x)
            \/ sealed' = Failed
    /\ UNCHANGED <<encryptor, decrypted>>
    /\ UNCHANGED notCrypto

\* a call of Decrypt on what Encrypt returned
Encryptor_Decrypt ==
    /\ sealed.state = "ok"
    /\ decrypted = NoResult
    /\ decrypted' = Decrypt(encryptor.seed, sealed.data)
    /\ UNCHANGED <<encryptor, plain, sealed>>
    /\ UNCHANGED notCrypto

InitCrypto ==
    /\ encryptor = NoEncryptor
    /\ plain = <<>>
    /\ sealed = NoResult
    /\ decrypted = NoResult

NextCrypto == NewEncryptor \/ Encryptor_Encrypt \/ Encryptor_Decrypt

\* C29: Decrypt, under the key that encrypted, of what Encrypt returned for
\* a plaintext x succeeds and returns x, the empty plaintext included.
C29_DecryptInvertsEncrypt ==
    decrypted # NoResult =>
        (decrypted.state = "ok" /\ decrypted.data = plain)

C29_Witness ==
    /\ decrypted.state = "ok"
    /\ plain = <<>>
    /\ decrypted.data = plain
    /\ Len(sealed.data) > 0

(***************************************************************************)
(* The name check of PostVolumes.  A name is a string over a lowercase     *)
(* letter, a digit, the hyphen, an uppercase letter and one character of   *)
(* no class; long names are a letter, a run of one character, and a last   *)
(* character.                                                              *)
(***************************************************************************)
\* longest name that is tried in every spelling, and rows of one team
MaxShortLen == 2
MaxNamedRows == 2
\* the counted repetition of volumeNamePattern
maxMiddle == 61
StatusBadRequest == 400
StatusCreated == 201
LowerChars == {"a"}
DigitChars == {"1"}
NameChars == LowerChars \cup DigitChars \cup {"-", "A", "_"}
Repeated(c, k) == [i \in 1..k |-> c]
ShortNames == UNION {[1..k -> NameChars] : k \in 0..MaxShortLen}
LongNames ==
    {<<"a">> \o Repeated(c, k) \o <<l>> :
        c \in {"a", "-"}, k \in (maxMiddle - 1)..(maxMiddle + 1),
        l \in {"a", "1", "-"}}
NameInputs == ShortNames \cup LongNames
NotPosted == [name |-> <<>>, code |-> 0, dbErr |-> FALSE]

\* volumeNamePattern.MatchString: ^[a-z]([a-z0-9-]{0,61}[a-z0-9])?$
MatchString_AnyLength(s) ==
    /\ Len(s) >= 1
    /\ s[1] \in LowerChars
    /\ \/ Len(s) = 1
       \/ /\ \A i \in 2..(Len(s) - 1) : s[i] \in LowerChars \cup DigitChars \cup {"-"}
          /\ s[Len(s)] \in LowerChars \cup DigitChars
MatchString(s) ==
    /\ Len(s) >= 1
    /\ s[1] \in LowerChars
    /\ \/ Len(s) = 1
       \/ \E m \in 0..maxMiddle :
            /\ Len(s) = 1 + m + 1
            /\ \A i \in 2..(1 + m) : s[i] \in LowerChars \cup DigitChars \cup {"-"}
            /\ s[Len(s)] \in LowerChars \cup DigitChars

\* PostVolumes of an authenticated team with a well-formed body: the name
\* checks, the idempotent lookup, and the creation with what can fail in it
PostVolumes ==
    /\ Cardinality(namedRows) < MaxNamedRows
    /\ \E name \in NameInputs :
         IF name = <<>> \/ ~MatchString(name)
         THEN /\ posted' = [name |-> name, code |-> StatusBadRequest,
                            dbErr |-> FALSE]
              /\ UNCHANGED namedRows
         ELSE IF name \in namedRows
         THEN /\ posted' = [name |-> name, code |-> StatusOK, dbErr |-> FALSE]
              /\ UNCHANGED namedRows
         ELSE \/ \* GetVolumeByName, AllocateRedisDB or CreateVolume fails
                 /\ posted' = [name |-> name, code |-> StatusInternalServerError,
                               dbErr |-> TRUE]
                 /\ UNCHANGED namedRows
              \/ \* the row is inserted and a later step fails
                 /\ posted' = [name |-> name, code |-> StatusInternalServerError,
                               dbErr |-> TRUE]
                 /\ namedRows' = namedRows \cup {name}
              \/ /\ posted' = [name |-> name, code |-> StatusCreated,
                               dbErr |-> FALSE]
                 /\ namedRows' = namedRows \cup {name}
    /\ UNCHANGED notNames

InitNames == namedRows = {} /\ posted = NotPosted

NextNames == PostVolumes

\* what the pattern asks of a name, condition by condition
WellFormedName(s) ==
    /\ Len(s) \in 1..(maxMiddle + 2)
    /\ s[1] \in LowerChars
    /\ \A i \in 1..Len(s) : s[i] \in LowerChars \cup DigitChars \cup {"-"}
    /\ s[Len(s)] # "-"

\* C30: a Create is answered 400 exactly when its name does not match the
\* pattern (empty, leading digit, uppercase, trailing hyphen, longer than 63
\* characters, ...), and then no row is created; a name that matches is
\* answered 200 or 201 unless the database or the volume setup fails.
C30_CreateIffNameMatches ==
    /\ posted # NotPosted =>
          /\ posted.code = StatusBadRequest <=> ~WellFormedName(posted.name)
          /\ (WellFormedName(posted.name) /\ ~posted.dbErr)
                => posted.code \in {StatusOK, StatusCreated}
    /\ \A n \in namedRows : WellFormedName(n)

C30_Witness ==
    /\ posted.code = StatusBadRequest
    /\ Len(posted.name) = maxMiddle + 3
    /\ posted.name[Len(posted.name)] \in LowerChars
    /\ \E n \in namedRows : Len(n) = maxMiddle + 2

(***************************************************************************)
(* The listing of a team's sandbox runs, page by page.  The rows do not    *)
(* change while a client pages through them.                               *)
(***************************************************************************)
\* rows of sandbox_runs
MaxRuns == 3
\* distinct values of created_at, in microseconds after some instant
MaxCreatedAt == 2
sandboxRunsDefaultLimit == 100
sandboxRunsMaxLimit == 100
RunIDs == 1..MaxRuns
RunTeams == {"t1", "t2"}
NoRunRow == [team |-> "none", created_at |-> 0]
RunRows == [team : RunTeams, created_at : 1..MaxCreatedAt]
\* the limit parameter: absent (0), or a number
RunLimitParams == {0, 1, 2}

\* Parse limit
RunsLimit(param) ==
    IF param > 0
    THEN IF param > sandboxRunsMaxLimit THEN sandboxRunsMaxLimit ELSE param
    ELSE sandboxRunsDefaultLimit

\* CreatedAt.Format(time.RFC3339Nano) and time.Parse of it: the instant as
\* text and back
Format_RFC3339Nano(t) == Decimal(t)
Parse_RFC3339Nano(s) == ScanDigits(s, 0)

\* ListSandboxRuns: the rows of the team older than the cursor
OlderRuns(team, cursorTime) ==
    {id \in RunIDs : runRows[id].team = team
                       /\ runRows[id].created_at < cursorTime}

\* ORDER BY created_at DESC LIMIT n: the orders the database may return the
\* rows in, rows of equal created_at in any order
RECURSIVE Descending(_)
Descending(ids) ==
    IF ids = {} THEN {<<>>}
    ELSE UNION {{<<id>> \o rest : rest \in Descending(ids \ {id})} :
                   id \in {i \in ids : \A j \in ids :
                              runRows[i].created_at >= runRows[j].created_at}}
ListSandboxRuns(team, cursorTime, queryLimit) ==
    {Take(rows, queryLimit) : rows \in Descending(OlderRuns(team, cursorTime))}

\* the table is filled and a client of a team starts to list its runs
RunsListingStarts ==
    /\ runListing = "idle"
    /\ \E rows \in [RunIDs -> RunRows \cup {NoRunRow}], team \in RunTeams,
          limit \in RunLimitParams :
         /\ runRows' = rows
         /\ runTeam' = team
         /\ runLimit' = limit
    /\ runListing' = "paging"
    /\ UNCHANGED <<runToken, runSeen>>
    /\ UNCHANGED notRuns

\* GetV2SandboxRuns: one page, with the x-next-token of the page before
GetV2SandboxRuns ==
    /\ runListing = "paging"
    /\ LET limit == RunsLimit(runLimit)
           cursorTime == IF runToken # NoToken THEN Parse_RFC3339Nano(runToken)
                         ELSE MaxCreatedAt + 1
       IN \E rows \in ListSandboxRuns(runTeam, cursorTime, limit + 1) :
            LET hasMore == Len(rows) > limit
                page == IF hasMore THEN Take(rows, limit) ELSE rows
            IN /\ runSeen' = runSeen \o page
               /\ IF hasMore /\ Len(page) > 0
                  THEN /\ runToken' = Format_RFC3339Nano(
                                          runRows[page[Len(page)]].created_at)
                       /\ UNCHANGED runListing
                  ELSE /\ runListing' = "done"
                       /\ UNCHANGED runToken
    /\ UNCHANGED <<runRows, runTeam, runLimit>>
    /\ UNCHANGED notRuns

InitRuns ==
    /\ runRows = [id \in RunIDs |-> NoRunRow]
    /\ runTeam = "t1"
    /\ runLimit = 0
    /\ runToken = NoToken
    /\ runSeen = <<>>
    /\ runListing = "idle"

NextRuns == RunsListingStarts \/ GetV2SandboxRuns

(***************************************************************************)
(* Claims about the listing of sandbox runs.                               *)
(***************************************************************************)
\* C37: a client that has followed x-next-token to the last page has seen
\* every run of its team exactly once, in created_at descending order, and
\* no run of another team, rows of equal created_at included.
C37_PagesCoverRunsOnce ==
    runListing = "done" =>
        /\ \A id \in RunIDs :
               runRows[id].team = runTeam =>
                   Cardinality({i \in 1..Len(runSeen) : runSeen[i] = id}) = 1
        /\ \A i \in 1..Len(runSeen) : runRows[runSeen[i]].team = runTeam
        /\ \A i, j \in 1..Len(runSeen) :
               i < j => runRows[runSeen[i]].created_at
                            >= runRows[runSeen[j]].created_at

(***************************************************************************)
(* The per-key rate limiter of the API.  getLimiter takes rateLimiter.mu   *)
(* twice when it finds the key: once to read the map and once to stamp the *)
(* entry; the sweep runs under the write lock.                             *)
(***************************************************************************)
\* limiterEntry objects made in one behaviour
MaxLimiters == 2
\* minutes the clock of the limiter runs
MaxLimiterTime == 15
\* RateLimitConfig of the endpoint
RequestsPerMinute == 1
BurstSize == 0
cleanupInterval == 5
limiterTTL == 10
\* the requests in flight, all of one key
LimitedReqs == {"q1", "q2"}
NoLimiter == 0
IdleLimited == [pc |-> "idle", limiter |-> NoLimiter]

\* burstSize := rl.config.BurstSize; if burstSize == 0 { RequestsPerMinute }
burstSize == IF BurstSize = 0 THEN RequestsPerMinute ELSE BurstSize

\* rate.Limiter: the tokens of a bucket after some minutes, never above burst
Refill(tokens, minutes) ==
    IF tokens + RequestsPerMinute * minutes > burstSize THEN burstSize
    ELSE tokens + RequestsPerMinute * minutes

\* getLimiter: entry, exists := rl.limiters[key] under RLock
getLimiter_Read(q) ==
    /\ rlReq[q].pc = "idle"
    /\ rlReq' = [rlReq EXCEPT ![q] =
                    IF limiters # NoLimiter
                    THEN [pc |-> "exists", limiter |-> limiters]
                    ELSE [pc |-> "create", limiter |-> NoLimiter]]
    /\ UNCHANGED <<limiters, entriesMade, rlNow, allowance>>
    /\ UNCHANGED notLimiter

\* getLimiter: the entry read is stamped under Lock and its limiter returned
getLimiter_Stamp(q) ==
    /\ rlReq[q].pc = "exists"
    /\ entriesMade' = [entriesMade EXCEPT ![rlReq[q].limiter].lastAccess = rlNow]
    /\ rlReq' = [rlReq EXCEPT ![q].pc = "allow"]
    /\ UNCHANGED <<limiters, rlNow, allowance>>
    /\ UNCHANGED notLimiter

\* getLimiter: under Lock, the second look at the map and, if the key is
\* still missing, a new limiter with a full bucket
getLimiter_Create(q) ==
    /\ rlReq[q].pc = "create"
    /\ IF limiters # NoLimiter
       THEN /\ entriesMade' = [entriesMade EXCEPT ![limiters].lastAccess = rlNow]
            /\ rlReq' = [rlReq EXCEPT ![q] = [pc |-> "allow", limiter |-> limiters]]
            /\ UNCHANGED limiters
       ELSE /\ Len(entriesMade) < MaxLimiters
            /\ entriesMade' = Append(entriesMade,
                                     [tokens |-> burstSize, lastAccess |-> rlNow])
            /\ limiters' = Len(entriesMade) + 1
            /\ rlReq' = [rlReq EXCEPT ![q] =
                            [pc |-> "allow", limiter |-> Len(entriesMade) + 1]]
    /\ UNCHANGED <<rlNow, allowance>>
    /\ UNCHANGED notLimiter

\* RateLimitMiddleware: limiter.Allow(), then 429 or c.Next()
RateLimitMiddleware_Allow(q) ==
    /\ rlReq[q].pc = "allow"
    /\ LET e == rlReq[q].limiter
       IN IF entriesMade[e].tokens > 0
          THEN /\ entriesMade' = [entriesMade EXCEPT ![e].tokens = @ - 1]
               /\ allowance' = allowance - 1
          ELSE UNCHANGED <<entriesMade, allowance>>
    /\ rlReq' = [rlReq EXCEPT ![q] = IdleLimited]
    /\ UNCHANGED <<limiters, rlNow>>
    /\ UNCHANGED notLimiter

\* cleanup, one tick of its ticker: the entry of the key is deleted from the
\* map when it was last stamped more than limiterTTL ago
Limiter_cleanup ==
    /\ limiters # NoLimiter
    /\ rlNow - entriesMade[limiters].lastAccess > limiterTTL
    /\ limiters' = NoLimiter
    /\ UNCHANGED <<entriesMade, rlNow, rlReq, allowance>>
    /\ UNCHANGED notLimiter

\* cleanupInterval passes: every bucket refills
LimiterTick ==
    /\ rlNow + cleanupInterval <= MaxLimiterTime
    /\ rlNow' = rlNow + cleanupInterval
    /\ entriesMade' = [i \in 1..Len(entriesMade) |->
                          [entriesMade[i] EXCEPT
                              !.tokens = Refill(@, cleanupInterval)]]
    /\ allowance' = Refill(allowance, cleanupInterval)
    /\ UNCHANGED <<limiters, rlReq>>
    /\ UNCHANGED notLimiter

InitLimiter ==
    /\ limiters = NoLimiter
    /\ entriesMade = <<>>
    /\ rlNow = 0
    /\ rlReq = [q \in LimitedReqs |-> IdleLimited]
    /\ allowance = burstSize

NextLimiter ==
    \/ \E q \in LimitedReqs :
           \/ getLimiter_Read(q)
           \/ getLimiter_Stamp(q)
           \/ getLimiter_Create(q)
           \/ RateLimitMiddleware_Allow(q)
    \/ Limiter_cleanup
    \/ LimiterTick

(***************************************************************************)
(* Claims about the rate limiter.                                          *)
(***************************************************************************)
\* the buckets in use: the one in the map and those requests are about to
\* charge
InUse == ({limiters} \cup {rlReq[q].limiter : q \in LimitedReqs}) \ {NoLimiter}

\* C38: the key has at most one bucket in use at any time, and the requests
\* admitted never exceed what one bucket of the configured rate and burst
\* admits: the tokens of a single bucket charged with every admitted request
\* never fall below zero.
C38_OneBucketPerKey ==
    /\ Cardinality(InUse) <= 1
    /\ allowance >= 0

(***************************************************************************)
(* Pool.Get step by step: the lock of the pool, the look into the map and  *)
(* NewClient with its metadata restore, which runs inside Get.             *)
(***************************************************************************)
\* the request handlers that call Get
GetCallers == {"h1", "h2", "h3"}
Unlocked == "unlocked"
NoGet == [pc |-> "idle", vol |-> "none"]

\* a handler calls Get for a volume and arrives at p.mu.Lock()
Get_Call(h, v) ==
    /\ getCall[h].pc = "idle"
    /\ getCall' = [getCall EXCEPT ![h] = [pc |-> "waiting", vol |-> v]]
    /\ UNCHANGED <<poolMu, pooled>>
    /\ UNCHANGED notOpening

\* Get: p.mu.Lock() returns
Get_Lock(h) ==
    /\ getCall[h].pc = "waiting"
    /\ poolMu = Unlocked
    /\ poolMu' = h
    /\ getCall' = [getCall EXCEPT ![h].pc = "locked"]
    /\ UNCHANGED pooled
    /\ UNCHANGED notOpening

\* Get: the cached client is returned (the deferred Unlock runs), or
\* NewClient starts and with it restoreMetaDB
Get_Lookup(h) ==
    /\ getCall[h].pc = "locked"
    /\ IF getCall[h].vol \in pooled
       THEN /\ getCall' = [getCall EXCEPT ![h] = NoGet]
            /\ poolMu' = Unlocked
       ELSE /\ getCall' = [getCall EXCEPT ![h].pc = "restoring"]
            /\ UNCHANGED poolMu
    /\ UNCHANGED pooled
    /\ UNCHANGED notOpening

\* Get: NewClient returns the client, which goes into the map, or an error;
\* the deferred Unlock runs
Get_NewClient(h) ==
    /\ getCall[h].pc = "restoring"
    /\ \E ok \in BOOLEAN :
         pooled' = IF ok THEN pooled \cup {getCall[h].vol} ELSE pooled
    /\ getCall' = [getCall EXCEPT ![h] = NoGet]
    /\ poolMu' = Unlocked
    /\ UNCHANGED notOpening

\* cleanup and Close, under p.mu: the clients of some volumes leave the map
Pool_Evict ==
    /\ poolMu = Unlocked
    /\ \E gone \in SUBSET pooled : gone # {} /\ pooled' = pooled \ gone
    /\ UNCHANGED <<poolMu, getCall>>
    /\ UNCHANGED notOpening

InitOpening ==
    /\ poolMu = Unlocked
    /\ getCall = [h \in GetCallers |-> NoGet]
    /\ pooled = {}

NextOpening ==
    \/ \E h \in GetCallers, v \in PoolVolumes : Get_Call(h, v)
    \/ \E h \in GetCallers : Get_Lock(h) \/ Get_Lookup(h) \/ Get_NewClient(h)
    \/ Pool_Evict

(***************************************************************************)
(* Claims about the opening of clients.                                    *)
(***************************************************************************)
\* C39: no Get for one volume waits for the lock of the pool while its
\* holder is opening the client of another volume.
C39_GetNotBlockedByOtherVolume ==
    \A g, h \in GetCallers :
        ~(/\ getCall[g].pc = "waiting"
          /\ poolMu = h
          /\ getCall[h].pc = "restoring"
          /\ getCall[h].vol # getCall[g].vol)

Init == /\ InitVolumes /\ InitProxy /\ InitFS /\ InitConsumer /\ InitMount
        /\ InitMu /\ InitPool /\ InitBucket /\ InitListing /\ InitPaths
        /\ InitCrypto /\ InitNames
        /\ InitRuns
        /\ InitLimiter
        /\ InitOpening

SpecVolumes == Init /\ [][NextVolumes]_vars
SpecProxy == Init /\ [][NextProxy]_vars
SpecFS == Init /\ [][NextFS]_vars
SpecConsumer == Init /\ [][NextConsumer]_vars
SpecMount == Init /\ [][NextMount]_vars
SpecClientMu == Init /\ [][NextMu]_vars
SpecPool == Init /\ [][NextPool]_vars
SpecBucket == Init /\ [][NextBucket]_vars
SpecListing == Init /\ [][NextListing]_vars
SpecPaths == Init /\ [][NextPaths]_vars
SpecCrypto == Init /\ [][NextCrypto]_vars
SpecNames == Init /\ [][NextNames]_vars
SpecRuns == Init /\ [][NextRuns]_vars
SpecLimiter == Init /\ [][NextLimiter]_vars
SpecOpening == Init /\ [][NextOpening]_vars
\* Run loops for ever and time passes; nothing makes a sandbox publish
LiveConsumer == SpecConsumer /\ WF_vars(ConsumerStep) /\ WF_vars(Tick)

====
